---- MODULE Spec2Model ----
(***************************************************************************)
(* A model of the EmojiWorld simulation engine: World.tick() and the      *)
(* entities and subsystems it drives (Citizen, Resource, Landmark,        *)
(* Government, CrimeSystem, PoliceSystem, RoutineSystem).                 *)
(*                                                                         *)
(* Numbers the code keeps as floats (needs, energy, satisfaction, loyalty, *)
(* social credit) are fixed-point integers here: one unit is 0.005, so    *)
(* 100 is Pts(100) = 20000 and the decay 0.03 is 6.  Every increment of   *)
(* the code is a multiple of 0.005.                                        *)
(*                                                                         *)
(* Math.random() draws are nondeterministic choices.  Operators that      *)
(* contain a draw return the SET of citizens (or worlds) the draw can     *)
(* produce.                                                                *)
(***************************************************************************)
EXTENDS Integers, Sequences, FiniteSets, TLC

VARIABLES
  grid,            \* [width, height]: the Grid built from the configuration
  tickCount,       \* World.tickCount
  citizens,        \* World.citizens, in list order; a citizen's id is its index
  resources,       \* World.resources
  landmarks,       \* World.landmarks, in list order
  governments,     \* World.governments; gov_n is entry n
  crimes,          \* CrimeSystem.crimes
  crimeIdCounter,  \* CrimeSystem.crimeIdCounter
  officers,        \* PoliceSystem.officers: citizen id -> officer record
  events,          \* World.events
  totalBuildings,  \* World.totalBuildings
  totalBirths,     \* World.totalBirths
  pc,              \* the pass of tick() that runs next; "idle" between ticks
  ci,              \* index i of the citizen loop of tick()
  lastStep,        \* what the last body of the citizen loop did
  policeLog,       \* the officers' turns of the last police sweep
  horizon,         \* the last tick the bounded run executes
  faults,          \* the statements of tick() that throw in this run
  caught,          \* the errors the current tick() has logged
  session,         \* the API session that owns the world, Null without one
  currentTime,     \* the time of day of the last routine pass, Null before one
  store,           \* api/world.js: worldInstances, lastCleanupTime and the clock
  client           \* public/app.js: the EmojiWorldApp of one browser page

vars == <<grid, tickCount, citizens, resources, landmarks, governments, crimes,
          crimeIdCounter, officers, events, totalBuildings, totalBirths, pc, ci,
          lastStep, policeLog, horizon, faults, caught, session, currentTime,
          store, client>>

\* ------------------------------------------------------------------ bounds

\* Ticks executed from the initial state of a run.
MaxTicks == 2

\* Tick counts at which the routine pass is run on its own: two days.
MaxClockTick == 2880

\* Requests to the session store and minutes without one in a run.
MaxRequests == 4

MaxMinutes == 6

\* Actions of the user on the page and firings of its timers in a run.
MaxActions == 4

MaxFires == 3

\* BREEDING_REQUIREMENTS.maxPopulation is 100 in the source; the model keeps
\* the comparison and scales the cap to the size of its populations.
maxPopulation == 6

\* ------------------------------------------------------------- arithmetic

Pts(n) == n * 200

Max(a, b) == IF a >= b THEN a ELSE b

Min(a, b) == IF a <= b THEN a ELSE b

Abs(n) == IF n < 0 THEN 0 - n ELSE n

Sign(n) == IF n > 0 THEN 1 ELSE IF n < 0 THEN 0 - 1 ELSE 0

Pos(px, py) == [x |-> px, y |-> py]

\* Optional values (null in the code): <<>> is null, <<v>> is v.
Null == <<>>

Some(v) == <<v>>

\* --------------------------------------------------------------- Grid

isValidPosition(g, p) ==
  p.x >= 0 /\ p.x < g.width /\ p.y >= 0 /\ p.y < g.height

\* Grid.distance is the Euclidean distance; the code only compares distances
\* with each other and with whole-number radii, which the squares decide.
Dist2(p, q) == (p.x - q.x) * (p.x - q.x) + (p.y - q.y) * (p.y - q.y)

Within(p, q, r) == Dist2(p, q) <= r * r

Cells(g) == {Pos(px, py) : px \in 0..(g.width - 1), py \in 0..(g.height - 1)}

\* ------------------------------------------------------------- Landmark

isRoad(t) == t \in {"horizontal_road", "vertical_road", "intersection"}

isGovernmentBuilding(t) ==
  t \in {"town_hall", "courthouse", "treasury", "police_station", "public_works"}

isWalkableLandmark(t) == t # "boundary"

Landmark(p, t) == [position |-> p, type |-> t]

\* Indices of the elements of a sequence that satisfy Test, in list order.
SelectIdx(s, Test(_)) ==
  LET F[i \in 0..Len(s)] ==
        IF i = 0 THEN <<>>
        ELSE IF Test(s[i]) THEN Append(F[i - 1], i) ELSE F[i - 1]
  IN F[Len(s)]

\* The first landmark at p in list order, 0 if none.
FirstLandmarkAt(lms, p) ==
  LET at == {i \in 1..Len(lms) : lms[i].position = p}
  IN IF at = {} THEN 0 ELSE CHOOSE i \in at : \A j \in at : i <= j

\* ------------------------------------------------------------- Resource

Resource(p, t) == [position |-> p, type |-> t, collected |-> FALSE]

\* -------------------------------------------------------------- Citizen

BUILDING_RECIPES ==
  [HOME            |-> [resources |-> <<"H", "O", "M", "E">>, buildTime |-> 10],
   STORAGE         |-> [resources |-> <<"S", "T", "O", "R">>, buildTime |-> 8],
   MEETING         |-> [resources |-> <<"M", "E", "E", "T">>, buildTime |-> 6],
   FARM            |-> [resources |-> <<"F", "A", "R", "M">>, buildTime |-> 12],
   WALL            |-> [resources |-> <<"W", "A", "L">>, buildTime |-> 5],
   HORIZONTAL_ROAD |-> [resources |-> <<"R", "O", "A", "D">>, buildTime |-> 3],
   VERTICAL_ROAD   |-> [resources |-> <<"R", "O", "A", "D">>, buildTime |-> 3],
   INTERSECTION    |-> [resources |-> <<"R", "O", "A", "D", "X">>, buildTime |-> 4],
   TOWN_HALL       |-> [resources |-> <<"G", "O", "V", "T", "H", "A", "L", "L">>,
                        buildTime |-> 20],
   COURTHOUSE      |-> [resources |-> <<"C", "O", "U", "R", "T">>, buildTime |-> 15],
   TREASURY        |-> [resources |-> <<"T", "R", "E", "A", "S", "U", "R", "Y">>,
                        buildTime |-> 12],
   POLICE_STATION  |-> [resources |-> <<"P", "O", "L", "I", "C", "E">>,
                        buildTime |-> 10],
   PUBLIC_WORKS    |-> [resources |-> <<"W", "O", "R", "K", "S">>, buildTime |-> 8]]

\* BuildingType.toLowerCase(), the landmark type World.tick places.
LandmarkTypeOf ==
  [HOME |-> "home", STORAGE |-> "storage", MEETING |-> "meeting", FARM |-> "farm",
   WALL |-> "wall", HORIZONTAL_ROAD |-> "horizontal_road",
   VERTICAL_ROAD |-> "vertical_road", INTERSECTION |-> "intersection",
   TOWN_HALL |-> "town_hall", COURTHOUSE |-> "courthouse", TREASURY |-> "treasury",
   POLICE_STATION |-> "police_station", PUBLIC_WORKS |-> "public_works"]

\* The building types planBuilding draws from (all three branches of its draw).
BuildingTypes == DOMAIN BUILDING_RECIPES

minEnergy == 60

minAge == 100

breedingCooldown == 200

proximityRange == 2

movementSpeed == 1

\* new Citizen(...): the constructor's field values; the fields of the crime,
\* detention and job systems follow the data model of the specification.
NewCitizen(p) ==
  [position |-> p, state |-> "wandering",
   hunger |-> Pts(50), nenergy |-> Pts(80), social |-> Pts(50),
   inventory |-> <<>>, target |-> Null, moveCounter |-> 0,
   isBuilding |-> FALSE, buildingProgress |-> 0, buildingTarget |-> Null,
   age |-> 0, lastBreedTime |-> 0 - 1000, breedingPartner |-> 0, offspring |-> 0,
   energy |-> Pts(80),
   governmentId |-> 0, governmentRole |-> "independent", taxesPaid |-> 0,
   satisfaction |-> Pts(70), loyaltyToGov |-> Pts(50), lastTaxTime |-> 0 - 100,
   socialCredit |-> Pts(500), isCriminal |-> FALSE, isDetained |-> FALSE,
   detentionEndTime |-> 0, job |-> Null, routine |-> "none"]

\* Citizen.isOnRoad: the first landmark on the citizen's cell decides.
isOnRoad(c, lms) ==
  LET i == FirstLandmarkAt(lms, c.position)
  IN i # 0 /\ isRoad(lms[i].type)

\* Citizen.isWalkable
isWalkable(p, lms) ==
  LET i == FirstLandmarkAt(lms, p)
  IN i = 0 \/ isWalkableLandmark(lms[i].type)

\* Array.indexOf, 1-based; 0 when absent.
IndexOf(s, v) ==
  LET at == {i \in 1..Len(s) : s[i] = v}
  IN IF at = {} THEN 0 ELSE CHOOSE i \in at : \A j \in at : i <= j

\* Array.splice(index, 1)
RemoveAt(s, i) == SubSeq(s, 1, i - 1) \o SubSeq(s, i + 1, Len(s))

\* Citizen.getNeededResources: the recipe letters the inventory does not cover,
\* matched one inventory token per letter.
getNeededResources(inv, required) ==
  LET F[k \in 0..Len(required)] ==
        IF k = 0 THEN [needed |-> <<>>, copy |-> inv]
        ELSE LET prev == F[k - 1]
                 idx == IndexOf(prev.copy, required[k])
             IN IF idx = 0
                THEN [needed |-> Append(prev.needed, required[k]), copy |-> prev.copy]
                ELSE [needed |-> prev.needed, copy |-> RemoveAt(prev.copy, idx)]
  IN F[Len(required)].needed

hasResources(inv, required) == getNeededResources(inv, required) = <<>>

\* Citizen.consumeResources: the inventory after removing the first token of
\* each recipe letter that is present.
consumeResources(inv, required) ==
  LET F[k \in 0..Len(required)] ==
        IF k = 0 THEN inv
        ELSE LET idx == IndexOf(F[k - 1], required[k])
             IN IF idx = 0 THEN F[k - 1] ELSE RemoveAt(F[k - 1], idx)
  IN F[Len(required)]

\* Citizen.startBuilding
startBuilding(c) ==
  IF c.buildingTarget = Null THEN c
  ELSE LET recipe == BUILDING_RECIPES[c.buildingTarget[1]]
       IN IF hasResources(c.inventory, recipe.resources)
          THEN [c EXCEPT !.isBuilding = TRUE, !.buildingProgress = 0,
                         !.inventory = consumeResources(c.inventory, recipe.resources),
                         !.state = "building", !.target = Null]
          ELSE c

\* updateBuilding that completes one update late.
updateBuildingLate(c) ==
  IF ~c.isBuilding \/ c.buildingTarget = Null THEN c
  ELSE LET progress == c.buildingProgress + 1
           recipe == BUILDING_RECIPES[c.buildingTarget[1]]
       IN IF progress > recipe.buildTime
          THEN [c EXCEPT !.isBuilding = FALSE, !.buildingProgress = 0,
                         !.energy = Min(Pts(100), c.energy + Pts(10))]
          ELSE [c EXCEPT !.buildingProgress = progress]

\* Citizen.updateBuilding
updateBuilding(c) ==
  IF ~c.isBuilding \/ c.buildingTarget = Null THEN c
  ELSE LET progress == c.buildingProgress + 1
           recipe == BUILDING_RECIPES[c.buildingTarget[1]]
       IN IF progress >= recipe.buildTime
          THEN [c EXCEPT !.isBuilding = FALSE, !.buildingProgress = 0,
                         !.energy = Min(Pts(100), c.energy + Pts(10))]
          ELSE [c EXCEPT !.buildingProgress = progress]

\* The first candidate, in list order, at the least distance from p: the
\* "nearest = list[0]; if (dist < minDist) ..." scan of the findNearest methods.
NearestFirst(p, cand, PosOf(_)) ==
  LET k == CHOOSE k \in 1..Len(cand) :
             /\ \A j \in 1..Len(cand) : Dist2(p, PosOf(cand[k])) <= Dist2(p, PosOf(cand[j]))
             /\ \A j \in 1..(k - 1) : Dist2(p, PosOf(cand[j])) > Dist2(p, PosOf(cand[k]))
  IN cand[k]

\* Citizen.findNearestResource (setRandomTarget(null) changes nothing)
findNearestResource(c, rs) ==
  LET available == SelectIdx(rs, LAMBDA r : ~r.collected)
      PosOf(i) == rs[i].position
  IN IF available = <<>> THEN c
     ELSE [c EXCEPT !.target = Some(rs[NearestFirst(c.position, available, PosOf)].position)]

\* Citizen.findNearestLandmark
findNearestLandmark(c, lms, type) ==
  LET matching == SelectIdx(lms, LAMBDA l : l.type = type)
      PosOf(i) == lms[i].position
  IN IF matching = <<>> THEN c
     ELSE [c EXCEPT !.target = Some(lms[NearestFirst(c.position, matching, PosOf)].position)]

\* Citizen.findNearestCitizen: a candidate replaces the current nearest only
\* when it is strictly nearer and not on the citizen's own cell.
findNearestCitizen(i, c, cs) ==
  LET others == SelectSeq([k \in 1..Len(cs) |-> k], LAMBDA k : k # i)
      D(k) == Dist2(c.position, cs[others[k]].position)
      F[k \in 1..Len(others)] ==
        IF k = 1 THEN 1
        ELSE IF D(k) < D(F[k - 1]) /\ D(k) > 0 THEN k ELSE F[k - 1]
  IN IF others = <<>> THEN c
     ELSE [c EXCEPT !.target = Some(cs[others[F[Len(others)]]].position)]

\* Citizen.setRandomTarget(grid): any cell of the grid.
setRandomTarget(c, g) == {[c EXCEPT !.target = Some(p)] : p \in Cells(g)}

\* collectResource without its capacity test.
collectResourceUnbounded(c, rs, r) ==
  [c |-> [c EXCEPT !.inventory = Append(c.inventory, rs[r].type)],
   rs |-> [rs EXCEPT ![r].collected = TRUE]]

\* collectResource putting the new token in front of the inventory.
collectResourceInFront(c, rs, r) ==
  IF Len(c.inventory) < 10
  THEN [c |-> [c EXCEPT !.inventory = <<rs[r].type>> \o c.inventory],
        rs |-> [rs EXCEPT ![r].collected = TRUE]]
  ELSE [c |-> c, rs |-> rs]

\* collectResource without resource.collect().
collectResourceUnmarked(c, rs, r) ==
  IF Len(c.inventory) < 10
  THEN [c |-> [c EXCEPT !.inventory = Append(c.inventory, rs[r].type)], rs |-> rs]
  ELSE [c |-> c, rs |-> rs]

\* Citizen.collectResource on resource r of rs: the citizen and the resources after.
collectResource(c, rs, r) ==
  IF Len(c.inventory) < 10
  THEN [c |-> [c EXCEPT !.inventory = Append(c.inventory, rs[r].type)],
        rs |-> [rs EXCEPT ![r].collected = TRUE]]
  ELSE [c |-> c, rs |-> rs]

\* Citizen.shouldBuild: the values its draw allows.
shouldBuild(c, lms) ==
  IF c.energy < Pts(40) \/ c.isBuilding THEN {FALSE}
  ELSE IF Cardinality({i \in 1..Len(lms) : lms[i].type = "home"}) < 15
       THEN BOOLEAN ELSE {FALSE}

\* Citizen.planBuilding: a plan already made is kept.
planBuilding(c) ==
  IF c.buildingTarget # Null THEN {c}
  ELSE {[c EXCEPT !.buildingTarget = Some(t)] : t \in BuildingTypes}

\* Citizen.findResourcesForBuilding
findResourcesForBuilding(c, rs) ==
  IF c.buildingTarget = Null THEN c
  ELSE LET recipe == BUILDING_RECIPES[c.buildingTarget[1]]
           needed == getNeededResources(c.inventory, recipe.resources)
           available == SelectIdx(rs, LAMBDA r :
                          ~r.collected /\ \E k \in 1..Len(needed) : needed[k] = r.type)
           PosOf(i) == rs[i].position
       IN IF needed = <<>> THEN startBuilding(c)
          ELSE IF available = <<>> THEN [c EXCEPT !.buildingTarget = Null]
          ELSE [c EXCEPT !.target =
                  Some(rs[NearestFirst(c.position, available, PosOf)].position)]

\* shouldBreed without the test of the population.
shouldBreedUncapped(c, tick, cs) ==
  IF \/ c.age < minAge
     \/ c.energy < Pts(minEnergy)
     \/ tick - c.lastBreedTime < breedingCooldown
  THEN {FALSE} ELSE BOOLEAN

\* Citizen.shouldBreed: the values its draw allows.
shouldBreed(c, tick, cs) ==
  IF \/ c.age < minAge
     \/ c.energy < Pts(minEnergy)
     \/ tick - c.lastBreedTime < breedingCooldown
     \/ Len(cs) >= maxPopulation
  THEN {FALSE} ELSE BOOLEAN

\* Citizen.canBreedWith
canBreedWith(c, other, currentTick) ==
  /\ c.age >= minAge /\ other.age >= minAge
  /\ c.energy >= Pts(minEnergy) /\ other.energy >= Pts(minEnergy)
  /\ currentTick - c.lastBreedTime >= breedingCooldown
  /\ currentTick - other.lastBreedTime >= breedingCooldown

\* Citizen.findNearestMate: with no potential mate the partner is left as it was.
findNearestMate(i, c, cs, tick) ==
  LET potentialMates ==
        SelectSeq([k \in 1..Len(cs) |-> k],
                  LAMBDA k : k # i /\ canBreedWith(c, cs[k], tick))
      PosOf(k) == cs[k].position
  IN IF potentialMates = <<>> THEN c
     ELSE LET nearest == NearestFirst(c.position, potentialMates, PosOf)
          IN [c EXCEPT !.breedingPartner = nearest,
                       !.target = Some(cs[nearest].position)]

\* Citizen.isNearby
isNearby(c, other) == Within(c.position, other.position, proximityRange)

\* Citizen.decideAction: the first matching priority decides; the breeding and
\* building gates and the wander refresh are draws.
decideWander(c, g) ==
  LET w == [c EXCEPT !.state = "wandering"]
  IN IF w.target = Null THEN setRandomTarget(w, g)
     ELSE {w} \cup setRandomTarget(w, g)

decideBuildOrBelow(i, c, g, cs, rs, lms) ==
  UNION {IF build
         THEN {findResourcesForBuilding(plan, rs) :
                 plan \in planBuilding([c EXCEPT !.state = "seeking_resource"])}
         ELSE IF c.social < Pts(30)
              THEN {findNearestCitizen(i, [c EXCEPT !.state = "socializing"], cs)}
              ELSE decideWander(c, g)
         : build \in shouldBuild(c, lms)}

\* decideAction with the hunger test in front of the energy test.
decideActionHungerFirst(i, c, g, cs, rs, lms, tick) ==
  IF c.hunger < Pts(30)
  THEN {findNearestResource([c EXCEPT !.state = "seeking_resource"], rs)}
  ELSE IF c.nenergy < Pts(20)
  THEN {findNearestLandmark([c EXCEPT !.state = "seeking_shelter"], lms, "home")}
  ELSE UNION {IF breed
              THEN {findNearestMate(i, [c EXCEPT !.state = "seeking_mate"], cs, tick)}
              ELSE decideBuildOrBelow(i, c, g, cs, rs, lms)
              : breed \in shouldBreed(c, tick, cs)}

decideAction(i, c, g, cs, rs, lms, tick) ==
  IF c.nenergy < Pts(20)
  THEN {findNearestLandmark([c EXCEPT !.state = "seeking_shelter"], lms, "home")}
  ELSE IF c.hunger < Pts(30)
  THEN {findNearestResource([c EXCEPT !.state = "seeking_resource"], rs)}
  ELSE UNION {IF breed
              THEN {findNearestMate(i, [c EXCEPT !.state = "seeking_mate"], cs, tick)}
              ELSE decideBuildOrBelow(i, c, g, cs, rs, lms)
              : breed \in shouldBreed(c, tick, cs)}

\* Citizen.onReachTarget
onReachTarget(c) ==
  LET r == [c EXCEPT !.target = Null]
  IN IF c.state = "seeking_shelter"
     THEN [r EXCEPT !.nenergy = Min(Pts(100), c.nenergy + Pts(30))]
     ELSE IF c.state = "seeking_resource"
     THEN [r EXCEPT !.hunger = Min(Pts(100), c.hunger + Pts(20))]
     ELSE IF c.state = "socializing"
     THEN [r EXCEPT !.social = Min(Pts(100), c.social + Pts(15))]
     ELSE r

\* The step of move taken whatever is on the cell and wherever it is.
moveToUnchecked(c, g, lms, newPosition) ==
  LET m == [c EXCEPT !.position = newPosition]
  IN IF m.position = m.target[1] THEN onReachTarget(m) ELSE m

\* The step of Citizen.move to newPosition: taken if valid and walkable, then
\* the target test.
moveTo(c, g, lms, newPosition) ==
  LET m == IF isValidPosition(g, newPosition) /\ isWalkable(newPosition, lms)
           THEN [c EXCEPT !.position = newPosition] ELSE c
  IN IF m.position = m.target[1] THEN onReachTarget(m) ELSE m

\* Citizen.move: diagonal on a draw when both axes differ, else along the axis
\* with the larger distance.
move(c, g, lms) ==
  IF c.target = Null THEN {c}
  ELSE LET t == c.target[1]
           dx == Sign(t.x - c.position.x)
           dy == Sign(t.y - c.position.y)
           diagonal == Pos(c.position.x + dx, c.position.y + dy)
           straight == IF Abs(t.x - c.position.x) > Abs(t.y - c.position.y)
                       THEN Pos(c.position.x + dx, c.position.y)
                       ELSE Pos(c.position.x, c.position.y + dy)
       IN IF dx # 0 /\ dy # 0
          THEN {moveTo(c, g, lms, diagonal), moveTo(c, g, lms, straight)}
          ELSE {moveTo(c, g, lms, straight)}

\* The move-counter part of Citizen.update.  The threshold is movementSpeed, or
\* max(0.5, movementSpeed / 2) on a road; both sides are doubled here.
moveIfDue(c, onRoad, g, lms) ==
  LET counter == c.moveCounter + 1
      threshold2 == IF onRoad THEN Max(1, movementSpeed) ELSE 2 * movementSpeed
  IN IF 2 * counter >= threshold2
     THEN move([c EXCEPT !.moveCounter = 0], g, lms)
     ELSE {[c EXCEPT !.moveCounter = counter]}

\* The decays at the head of Citizen.update.
decayNeeds(c, onRoad) ==
  [c EXCEPT !.age = c.age + 1,
            !.hunger = Max(0, c.hunger - 20),
            !.nenergy = Max(0, c.nenergy - 10),
            !.social = Max(0, c.social - 16),
            !.energy = Max(0, c.energy - (IF onRoad THEN 3 ELSE 6))]

\* Citizen.update of citizen i: the citizens it can become.
update(i, g, cs, rs, lms, tick) ==
  LET onRoad == isOnRoad(cs[i], lms)
      c == decayNeeds(cs[i], onRoad)
  IN IF c.isBuilding THEN {updateBuilding(c)}
     ELSE UNION {moveIfDue(d, onRoad, g, lms) : d \in decideAction(i, c, g, cs, rs, lms, tick)}

\* Citizen.breed that clears only the citizen's own partner reference.
breedKeepsPartner(cs, i, j, tick) ==
  LET a == [cs EXCEPT ![i].lastBreedTime = tick, ![j].lastBreedTime = tick]
      b == [a EXCEPT ![i].offspring = a[i].offspring + 1]
      c == [b EXCEPT ![j].offspring = b[j].offspring + 1]
      d == [c EXCEPT ![i].energy = c[i].energy - Pts(20)]
      e == [d EXCEPT ![j].energy = d[j].energy - Pts(20)]
      f == [e EXCEPT ![i].hunger = Max(0, e[i].hunger - Pts(30))]
      h == [f EXCEPT ![j].hunger = Max(0, f[j].hunger - Pts(30))]
  IN [h EXCEPT ![i].breedingPartner = 0]

\* Citizen.breed, on the citizen list: i is the citizen, j the partner.
breed(cs, i, j, tick) ==
  LET a == [cs EXCEPT ![i].lastBreedTime = tick, ![j].lastBreedTime = tick]
      b == [a EXCEPT ![i].offspring = a[i].offspring + 1]
      c == [b EXCEPT ![j].offspring = b[j].offspring + 1]
      d == [c EXCEPT ![i].energy = c[i].energy - Pts(20)]
      e == [d EXCEPT ![j].energy = d[j].energy - Pts(20)]
      f == [e EXCEPT ![i].hunger = Max(0, e[i].hunger - Pts(30))]
      h == [f EXCEPT ![j].hunger = Max(0, f[j].hunger - Pts(30))]
  IN [h EXCEPT ![i].breedingPartner = 0, ![j].breedingPartner = 0]

\* Citizen.joinGovernment
joinGovernment(c, governmentId, role) ==
  [c EXCEPT !.governmentId = governmentId, !.governmentRole = role,
            !.satisfaction = Pts(70), !.loyaltyToGov = Pts(60)]

\* Citizen.payTax with the default rate 0.15 = 15/100: the citizen after, and
\* the tokens paid.
taxRatePercent == 15

\* payTax taking the tokens with pop() instead of shift().
payTaxNewestFirst(c, ratePercent, tick) ==
  LET len == Len(c.inventory)
      n == IF tick - c.lastTaxTime < 100 THEN 0 ELSE Min((len * ratePercent) \div 100, len)
  IN [c |-> [c EXCEPT !.inventory = SubSeq(c.inventory, 1, len - n),
                      !.taxesPaid = c.taxesPaid + n,
                      !.lastTaxTime = IF n = 0 /\ tick - c.lastTaxTime < 100
                                      THEN c.lastTaxTime ELSE tick],
      taxes |-> [k \in 1..n |-> c.inventory[len + 1 - k]]]

payTax(c, ratePercent, tick) ==
  IF tick - c.lastTaxTime < 100 THEN [c |-> c, taxes |-> <<>>]
  ELSE LET taxAmount == (Len(c.inventory) * ratePercent) \div 100
           n == Min(taxAmount, Len(c.inventory))
           paid == [c EXCEPT !.inventory = SubSeq(c.inventory, n + 1, Len(c.inventory)),
                             !.taxesPaid = c.taxesPaid + n,
                             !.lastTaxTime = tick]
       IN [c |-> IF ratePercent > 30
                 THEN [paid EXCEPT !.satisfaction = Max(0, paid.satisfaction - Pts(2)),
                                   !.loyaltyToGov = Max(0, paid.loyaltyToGov - Pts(1))]
                 ELSE paid,
           taxes |-> SubSeq(c.inventory, 1, n)]

\* Citizen.receiveGovernmentService
receiveGovernmentService(c) ==
  [c EXCEPT !.satisfaction = Min(Pts(100), c.satisfaction + Pts(1)),
            !.loyaltyToGov = Min(Pts(100), c.loyaltyToGov + 100)]

\* Citizen.updateGovernmentSatisfaction
updateGovernmentSatisfaction(c, delta) ==
  LET s == Max(0, Min(Pts(100), c.satisfaction + delta))
  IN [c EXCEPT !.satisfaction = s,
               !.loyaltyToGov = IF s < Pts(30) THEN Max(0, c.loyaltyToGov - Pts(1))
                                ELSE IF s > Pts(70) THEN Min(Pts(100), c.loyaltyToGov + 100)
                                ELSE c.loyaltyToGov]

\* Citizen.shouldRebel: the values its draw allows.
shouldRebel(c) ==
  IF c.governmentId # 0 /\ c.satisfaction < Pts(20) /\ c.loyaltyToGov < Pts(20)
  THEN BOOLEAN ELSE {FALSE}

\* ----------------------------------------------------------------- World

Event(type, tick) == [type |-> type, tick |-> tick]

\* The interior cells no landmark, uncollected resource or citizen occupies.
EmptyInteriorCells(g, cs, rs, lms) ==
  {p \in Cells(g) :
     /\ p.x >= 1 /\ p.x <= g.width - 2 /\ p.y >= 1 /\ p.y <= g.height - 2
     /\ \A i \in 1..Len(lms) : lms[i].position # p
     /\ \A i \in 1..Len(rs) : rs[i].collected \/ rs[i].position # p
     /\ \A i \in 1..Len(cs) : cs[i].position # p}

\* World.getRandomEmptyPosition: a free interior cell; null when there is none
\* or when each of its 100 draws hits an occupied cell.
getRandomEmptyPosition(g, cs, rs, lms) ==
  LET free == EmptyInteriorCells(g, cs, rs, lms)
      interior == (g.width - 2) * (g.height - 2)
  IN {Some(p) : p \in free} \cup (IF Cardinality(free) < interior THEN {Null} ELSE {})

\* canBuildAt that looks at the grid only.
canBuildAtAnywhere(g, lms, p) == isValidPosition(g, p)

\* World.canBuildAt
canBuildAt(g, lms, p) ==
  isValidPosition(g, p) /\ \A i \in 1..Len(lms) : lms[i].position # p

\* World.findEmptyAdjacentCell: the first of the eight neighbours, in the order
\* of the offsets table, that is valid and holds no boundary and no citizen.
AdjacentOffsets ==
  <<Pos(0 - 1, 0 - 1), Pos(0, 0 - 1), Pos(1, 0 - 1), Pos(0 - 1, 0), Pos(1, 0),
    Pos(0 - 1, 1), Pos(0, 1), Pos(1, 1)>>

findEmptyAdjacentCell(g, cs, lms, position) ==
  LET cell(k) == Pos(position.x + AdjacentOffsets[k].x, position.y + AdjacentOffsets[k].y)
      free(k) ==
        /\ isValidPosition(g, cell(k))
        /\ ~\E i \in 1..Len(lms) :
              lms[i].position = cell(k) /\ ~isWalkableLandmark(lms[i].type)
        /\ ~\E i \in 1..Len(cs) : cs[i].position = cell(k)
      ok == {k \in 1..Len(AdjacentOffsets) : free(k)}
  IN IF ok = {} THEN Null ELSE Some(cell(CHOOSE k \in ok : \A j \in ok : k <= j))

\* World.createOffspring: the offspring, or null when no adjacent cell is free.
createOffspring(g, cs, lms, parent1) ==
  LET offspringPos == findEmptyAdjacentCell(g, cs, lms, parent1.position)
  IN IF offspringPos = Null THEN Null
     ELSE Some([NewCitizen(offspringPos[1]) EXCEPT
                  !.energy = Pts(50), !.hunger = Pts(30), !.nenergy = Pts(50),
                  !.social = Pts(40), !.age = 0])

\* "Check for resource collection" of World.tick for citizen i.
collectAt(w, i) ==
  LET at == SelectIdx(w.rs, LAMBDA r : ~r.collected /\ r.position = w.cs[i].position)
      F[k \in 0..Len(at)] ==
        IF k = 0 THEN [c |-> w.cs[i], rs |-> w.rs]
        ELSE collectResource(F[k - 1].c, F[k - 1].rs, at[k])
      done == F[Len(at)]
  IN [w EXCEPT !.cs = [w.cs EXCEPT ![i] = done.c], !.rs = done.rs]

\* The condition under which World.tick takes citizen c's building as completed.
buildingLooksCompleted(c) ==
  c.buildingTarget # Null /\ ~c.isBuilding /\ c.buildingProgress = 0

\* "Check for completed building" of World.tick for citizen i.
placeBuilding(w, i, g, tick) ==
  LET c == w.cs[i]
  IN IF buildingLooksCompleted(c)
     THEN LET cleared == [w EXCEPT !.cs = [w.cs EXCEPT ![i].buildingTarget = Null]]
          IN IF canBuildAt(g, w.lms, c.position)
             THEN [cleared EXCEPT
                     !.lms = Append(w.lms, Landmark(c.position, LandmarkTypeOf[c.buildingTarget[1]])),
                     !.totalBuildings = w.totalBuildings + 1,
                     !.ev = Append(w.ev, Event("building", tick)),
                     !.placed = TRUE]
             ELSE cleared
     ELSE w

\* The condition under which World.tick lets citizen i breed with its partner.
mayBreed(cs, i) ==
  /\ cs[i].state = "seeking_mate"
  /\ cs[i].breedingPartner # 0
  /\ isNearby(cs[i], cs[cs[i].breedingPartner])
  /\ cs[cs[i].breedingPartner].breedingPartner = i

\* The breeding block without its totalBirths++.
breedAtUncounted(w, i, g, tick) ==
  IF mayBreed(w.cs, i)
  THEN LET offspring == createOffspring(g, w.cs, w.lms, w.cs[i])
       IN IF offspring # Null
          THEN [w EXCEPT
                  !.cs = breed(Append(w.cs, offspring[1]), i, w.cs[i].breedingPartner, tick),
                  !.ev = Append(w.ev, Event("birth", tick)),
                  !.born = TRUE]
          ELSE w
  ELSE w

\* "Check for breeding opportunity" of World.tick for citizen i.
breedAt(w, i, g, tick) ==
  IF mayBreed(w.cs, i)
  THEN LET offspring == createOffspring(g, w.cs, w.lms, w.cs[i])
       IN IF offspring # Null
          THEN [w EXCEPT
                  !.cs = breed(Append(w.cs, offspring[1]), i, w.cs[i].breedingPartner, tick),
                  !.totalBirths = w.totalBirths + 1,
                  !.ev = Append(w.ev, Event("birth", tick)),
                  !.born = TRUE]
          ELSE w
  ELSE w

\* Every catch block of the loop body ends the body.
catchLeavesBodyAlways(block) == TRUE

\* The catch blocks of the loop body: the one of citizen.update ends the body
\* with `continue`, those of collection, building and breeding only log.
catchLeavesBody(block) == block = "update"

\* One body of the citizen loop of World.tick, for citizen i, after the update
\* made the citizen c1: collection, building placement, breeding.
\* A block of the body runs unless an earlier catch left the body; a block
\* that throws is caught and logged, and its catch decides what follows.
afterUpdate(i, c1, g, cs, rs, lms, ev, builds, births, tick, f) ==
  LET w0 == [cs |-> [cs EXCEPT ![i] = c1], rs |-> rs, lms |-> lms, ev |-> ev,
             totalBuildings |-> builds, totalBirths |-> births,
             placed |-> FALSE, born |-> FALSE,
             threw |-> IF <<"update", i>> \in f THEN {"update"} ELSE {},
             left |-> <<"update", i>> \in f /\ catchLeavesBody("update")]
      try(block, w, done) ==
        IF w.left THEN w
        ELSE IF <<block, i>> \in f
             THEN [w EXCEPT !.threw = @ \cup {block}, !.left = catchLeavesBody(block)]
             ELSE done
      w1 == try("collect", w0, collectAt(w0, i))
      w2 == try("building", w1, placeBuilding(w1, i, g, tick))
      w3 == try("breeding", w2, breedAt(w2, i, g, tick))
  IN w3 @@ [upd |-> w0.cs, mid |-> w2.cs]

\* ------------------------------------------------------------ Government

\* Set.add and Set.delete on a set kept in insertion order.
SetAdd(s, v) == IF \E k \in 1..Len(s) : s[k] = v THEN s ELSE Append(s, v)

SetDelete(s, v) == SelectSeq(s, LAMBDA e : e # v)

Members(s) == {s[k] : k \in 1..Len(s)}

\* new Government(...)
NewGovernment(type, founded) ==
  [type |-> type, leader |-> 0, officials |-> <<>>, citizens |-> <<>>,
   treasury |-> <<>>, taxRate |-> taxRatePercent, governmentBuildings |-> <<>>,
   publicRoads |-> <<>>, founded |-> founded, satisfaction |-> 70, corruption |-> 10]

\* Government.addCitizen
addCitizen(gov, id) == [gov EXCEPT !.citizens = SetAdd(gov.citizens, id)]

\* Government.removeCitizen
removeCitizen(gov, id) ==
  [gov EXCEPT !.citizens = SetDelete(gov.citizens, id),
              !.officials = SetDelete(gov.officials, id)]

\* addOfficial without its citizens.add.
addOfficialOnly(gov, id) == [gov EXCEPT !.officials = SetAdd(gov.officials, id)]

\* Government.addOfficial
addOfficial(gov, id) ==
  [gov EXCEPT !.officials = SetAdd(gov.officials, id),
              !.citizens = SetAdd(gov.citizens, id)]

\* Government.setLeader
setLeader(gov, id) == addOfficial([gov EXCEPT !.leader = id], id)

\* Government.addToTreasury: the treasury is a list of [resource, amount] entries.
addToTreasury(gov, resource, amount) ==
  LET at == {k \in 1..Len(gov.treasury) : gov.treasury[k].resource = resource}
  IN IF at = {}
     THEN [gov EXCEPT !.treasury = Append(gov.treasury,
                                          [resource |-> resource, amount |-> amount])]
     ELSE LET k == CHOOSE k \in at : TRUE
          IN [gov EXCEPT !.treasury[k].amount = gov.treasury[k].amount + amount]

\* Government.getTreasuryTotal
getTreasuryTotal(gov) ==
  LET F[k \in 0..Len(gov.treasury)] ==
        IF k = 0 THEN 0 ELSE F[k - 1] + gov.treasury[k].amount
  IN F[Len(gov.treasury)]

\* Government.addBuilding: l is the landmark's index in World.landmarks.
addBuilding(gov, lms, l) ==
  IF isGovernmentBuilding(lms[l].type)
  THEN [gov EXCEPT !.governmentBuildings = Append(gov.governmentBuildings, l)]
  ELSE IF isRoad(lms[l].type)
  THEN [gov EXCEPT !.publicRoads = Append(gov.publicRoads, l)]
  ELSE gov

\* Government.updateSatisfaction
updateSatisfaction(gov, delta) ==
  [gov EXCEPT !.satisfaction = Max(0, Min(100, gov.satisfaction + delta))]

GovernmentTypes == {"democracy", "monarchy", "council"}

\* unaffiliatedNear without the "governmentId === null" filter.
anyoneNear(cs, p, radius) ==
  SelectSeq([k \in 1..Len(cs) |-> k], LAMBDA k : Within(cs[k].position, p, radius))

\* The unaffiliated citizens within `radius` of p, in list order.
unaffiliatedNear(cs, p, radius) ==
  SelectSeq([k \in 1..Len(cs) |-> k],
            LAMBDA k : cs[k].governmentId = 0 /\ Within(cs[k].position, p, radius))

\* checkGovernmentFormation without its "existingGov" test.
hasGovernmentNever(govs, lms, townHall) == FALSE

\* The "existingGov" test of World.checkGovernmentFormation.
hasGovernment(govs, lms, townHall) ==
  \E n \in 1..Len(govs) : \E b \in 1..Len(govs[n].governmentBuildings) :
     lms[govs[n].governmentBuildings[b]].position = lms[townHall].position

\* formGovernment enlisting every nearby citizen.
foundersAll(nearby) == Len(nearby)

\* "Select first 5 citizens to join": the bound of the loop of formGovernment.
founders(nearby) == Min(5, Len(nearby))

\* World.formGovernment on w = [cs, govs, ev]: one world per government type.
formGovernment(w, lms, townHall, nearby, tick) ==
  LET govId == Len(w.govs) + 1
      n == founders(nearby)
      roleOf(k) == IF k = 1 THEN "leader" ELSE IF k <= 3 THEN "official" ELSE "citizen"
      joined == [k \in 1..Len(w.cs) |->
                   IF \E j \in 1..n : nearby[j] = k
                   THEN joinGovernment(w.cs[k], govId,
                                       roleOf(CHOOSE j \in 1..n : nearby[j] = k))
                   ELSE w.cs[k]]
      Gov(type) ==
        LET g0 == addBuilding(NewGovernment(type, tick), lms, townHall)
            H[k \in 0..n] ==
              IF k = 0 THEN g0
              ELSE IF k = 1 THEN setLeader(H[0], nearby[1])
              ELSE IF k <= 3 THEN addOfficial(H[k - 1], nearby[k])
              ELSE addCitizen(H[k - 1], nearby[k])
        IN H[n]
  IN {[w EXCEPT !.cs = joined,
                !.govs = Append(w.govs, Gov(type)),
                !.ev = Append(w.ev, Event("government", tick))]
      : type \in GovernmentTypes}

\* World.checkGovernmentFormation: the town halls in list order.
checkGovernmentFormation(cs, govs, ev, lms, tick) ==
  LET townHalls == SelectIdx(lms, LAMBDA l : l.type = "town_hall")
      F[k \in 0..Len(townHalls)] ==
        IF k = 0 THEN {[cs |-> cs, govs |-> govs, ev |-> ev]}
        ELSE UNION {
               IF hasGovernment(w.govs, lms, townHalls[k]) THEN {w}
               ELSE LET nearby == unaffiliatedNear(w.cs, lms[townHalls[k]].position, 5)
                    IN IF Len(nearby) >= 5
                       THEN formGovernment(w, lms, townHalls[k], nearby, tick)
                       ELSE {w}
               : w \in F[k - 1]}
  IN F[Len(townHalls)]

\* World.collectTaxes for government n, on w = [cs, govs, ev]: every member
\* pays, each token paid goes to the treasury, one tax event if any was paid.
collectTaxes(w, n, tick) ==
  LET members == w.govs[n].citizens
      addAll(gov, taxes) ==
        LET A[k \in 0..Len(taxes)] ==
              IF k = 0 THEN gov ELSE addToTreasury(A[k - 1], taxes[k], 1)
        IN A[Len(taxes)]
      F[k \in 0..Len(members)] ==
        IF k = 0 THEN [cs |-> w.cs, gov |-> w.govs[n], total |-> 0]
        ELSE LET prev == F[k - 1]
                 paid == payTax(prev.cs[members[k]], prev.gov.taxRate, tick)
             IN [cs |-> [prev.cs EXCEPT ![members[k]] = paid.c],
                 gov |-> addAll(prev.gov, paid.taxes),
                 total |-> prev.total + Len(paid.taxes)]
      done == F[Len(members)]
  IN [w EXCEPT !.cs = done.cs,
               !.govs = [w.govs EXCEPT ![n] = done.gov],
               !.ev = IF done.total > 0 THEN Append(w.ev, Event("tax", tick)) ELSE w.ev]

\* World.updateGovernmentSatisfaction for government n: the government's own
\* satisfaction, then per member the road service and the rebellion draw.
worldUpdateGovernmentSatisfaction(w, n, lms, tick) ==
  LET gov0 == w.govs[n]
      treasurySize == getTreasuryTotal(gov0)
      citizenCount == Len(gov0.citizens)
      \* resourcesPerCitizen = treasurySize / citizenCount, 0 without citizens
      gov1 == IF citizenCount > 0 /\ treasurySize > 5 * citizenCount
              THEN updateSatisfaction(gov0, 2)
              ELSE IF citizenCount = 0 \/ treasurySize < citizenCount
              THEN updateSatisfaction(gov0, 0 - 2)
              ELSE gov0
      members == gov0.citizens
      onRoad(c) == \E l \in 1..Len(lms) : isRoad(lms[l].type) /\ lms[l].position = c.position
      F[k \in 0..Len(members)] ==
        IF k = 0 THEN {[w EXCEPT !.govs = [w.govs EXCEPT ![n] = gov1]]}
        ELSE UNION {
               LET id == members[k]
                   served == IF onRoad(v.cs[id]) THEN receiveGovernmentService(v.cs[id])
                             ELSE v.cs[id]
               IN {IF rebel
                   THEN [v EXCEPT
                           !.cs = [v.cs EXCEPT ![id] = [served EXCEPT !.governmentRole = "rebel"]],
                           !.govs = [v.govs EXCEPT ![n] = removeCitizen(v.govs[n], id)],
                           !.ev = Append(v.ev, Event("rebellion", tick))]
                   ELSE [v EXCEPT !.cs = [v.cs EXCEPT ![id] = served]]
                   : rebel \in shouldRebel(served)}
               : v \in F[k - 1]}
  IN F[Len(members)]

\* World.recruitCitizens for government n: per government building, each
\* unaffiliated citizen within 3 joins on a draw.
recruitCitizens(w, n, lms) ==
  LET buildings == w.govs[n].governmentBuildings
      recruit(v, nearby) ==
        LET R[k \in 0..Len(nearby)] ==
              IF k = 0 THEN {v}
              ELSE UNION {
                     {u,
                      [u EXCEPT
                         !.govs = [u.govs EXCEPT ![n] = addCitizen(u.govs[n], nearby[k])],
                         !.cs = [u.cs EXCEPT ![nearby[k]] =
                                   joinGovernment(u.cs[nearby[k]], n, "citizen")]]}
                     : u \in R[k - 1]}
        IN R[Len(nearby)]
      F[b \in 0..Len(buildings)] ==
        IF b = 0 THEN {w}
        ELSE UNION {recruit(v, unaffiliatedNear(v.cs, lms[buildings[b]].position, 3))
                    : v \in F[b - 1]}
  IN F[Len(buildings)]

\* World.processGovernments: per government, in list order, the three sweeps,
\* each on its own tick schedule.
processGovernments(cs, govs, ev, lms, tick) ==
  LET F[n \in 0..Len(govs)] ==
        IF n = 0 THEN {[cs |-> cs, govs |-> govs, ev |-> ev]}
        ELSE UNION {
               LET taxed == IF tick % 100 = 0 THEN collectTaxes(w, n, tick) ELSE w
                   rated == IF tick % 50 = 0
                            THEN worldUpdateGovernmentSatisfaction(taxed, n, lms, tick)
                            ELSE {taxed}
               IN UNION {IF tick % 200 = 0 THEN recruitCitizens(v, n, lms) ELSE {v}
                         : v \in rated}
               : w \in F[n - 1]}
  IN F[Len(govs)]

\* ------------------------------------- Citizen: crime, detention and jobs
\* The Citizen methods the crime, police and routine systems call.

isEmployed(c) == c.job # Null

isModelCitizen(c) == c.socialCredit > Pts(800)

\* updateSocialCredit without the limits.
updateSocialCreditUnclamped(c, delta) ==
  LET credit == c.socialCredit + delta
  IN [c EXCEPT !.socialCredit = credit, !.isCriminal = credit < Pts(200)]

\* Citizen.updateSocialCredit: the credit stays in 0..1000; below 200 the
\* citizen is a criminal.
updateSocialCredit(c, delta) ==
  LET credit == Max(0, Min(Pts(1000), c.socialCredit + delta))
  IN [c EXCEPT !.socialCredit = credit, !.isCriminal = credit < Pts(200)]

\* Citizen.commitCrime: the crime's fixed credit penalty.
commitCrime(c, penalty) == updateSocialCredit(c, 0 - Pts(penalty))

\* The additional credit penalty of an arrest.
arrestPenalty == 50

\* Citizen.getArrested
getArrested(c, detentionTime, tick) ==
  [updateSocialCredit(c, 0 - Pts(arrestPenalty)) EXCEPT
     !.isDetained = TRUE, !.detentionEndTime = tick + detentionTime,
     !.state = "detained"]

\* Citizen.releaseFromDetention
releaseFromDetention(c) ==
  [c EXCEPT !.isDetained = FALSE, !.state = "wandering"]

\* Citizen.performRoutine
performRoutine(c, routine) == [c EXCEPT !.routine = routine]

\* Job.isWorkingHours: the 9-17 schedule.
isWorkingHours(job, hour) == hour >= 9 /\ hour < 17

\* --------------------------------------------------------- RoutineSystem

ticksPerHour == 60

\* getTimeOfDay with an evening that includes hour 20.
getTimeOfDayLongEvening(tick) ==
  LET totalMinutes == tick % (24 * ticksPerHour)
      hour == totalMinutes \div ticksPerHour
  IN [hour |-> hour,
      minute |-> totalMinutes % ticksPerHour,
      period |-> IF hour >= 6 /\ hour < 9 THEN "morning"
                 ELSE IF hour >= 9 /\ hour < 17 THEN "work"
                 ELSE IF hour >= 17 /\ hour <= 20 THEN "evening"
                 ELSE "night"]

\* RoutineSystem.getTimeOfDay
getTimeOfDay(tick) ==
  LET totalMinutes == tick % (24 * ticksPerHour)
      hour == totalMinutes \div ticksPerHour
  IN [hour |-> hour,
      minute |-> totalMinutes % ticksPerHour,
      period |-> IF hour >= 6 /\ hour < 9 THEN "morning"
                 ELSE IF hour >= 9 /\ hour < 17 THEN "work"
                 ELSE IF hour >= 17 /\ hour < 20 THEN "evening"
                 ELSE "night"]

\* RoutineSystem.findNearestHome: the home's position, or null.
findNearestHome(position, lms) ==
  LET homes == SelectIdx(lms, LAMBDA l : l.type = "home")
      PosOf(i) == lms[i].position
  IN IF homes = <<>> THEN Null
     ELSE Some(lms[NearestFirst(position, homes, PosOf)].position)

\* The "target = home, state = seeking_shelter" of the night and evening routines.
goHome(c, lms) ==
  LET home == findNearestHome(c.position, lms)
  IN IF home = Null THEN c
     ELSE [c EXCEPT !.target = home, !.state = "seeking_shelter"]

\* handleNightRoutine without the Math.min(100, ...) of the restoration.
handleNightRoutineUncapped(c, lms) ==
  LET a == performRoutine(c, "sleeping")
      b == IF a.state # "seeking_shelter" /\ a.state # "resting" THEN goHome(a, lms) ELSE a
  IN IF b.nenergy < Pts(100) THEN [b EXCEPT !.nenergy = b.nenergy + 40] ELSE b

\* RoutineSystem.handleNightRoutine
handleNightRoutine(c, lms) ==
  LET a == performRoutine(c, "sleeping")
      b == IF a.state # "seeking_shelter" /\ a.state # "resting" THEN goHome(a, lms) ELSE a
  IN IF b.nenergy < Pts(100)
     THEN [b EXCEPT !.nenergy = Min(Pts(100), b.nenergy + 40)]
     ELSE b

\* RoutineSystem.handleMorningRoutine
handleMorningRoutine(c, tick) ==
  LET a == performRoutine(c, "waking_up")
      isNearWorkTime == getTimeOfDay(tick).hour >= 9 - 1
  IN IF isEmployed(a)
     THEN IF a.hunger < Pts(60) /\ a.state # "seeking_resource"
          THEN {[a EXCEPT !.state = "seeking_resource"]}
          ELSE IF isNearWorkTime /\ a.hunger >= Pts(50)
          THEN {performRoutine(a, "commuting_to_work")}
          ELSE {a}
     ELSE IF a.state # "socializing"
          THEN {a, [a EXCEPT !.state = "socializing"]}
          ELSE {a}

\* The target a job sends its worker to: the first landmark of the kind.
workTarget(c, lms, Kind(_)) ==
  LET at == SelectIdx(lms, Kind)
  IN IF at # <<>> /\ lms[at[1]].position # c.position
     THEN [c EXCEPT !.target = Some(lms[at[1]].position)]
     ELSE c

\* RoutineSystem.performJobWork
performJobWork(c, lms) ==
  LET w == IF c.state \notin {"working", "detained", "fleeing"}
           THEN [c EXCEPT !.state = "working"] ELSE c
      type == c.job[1].type
  IN IF type = "DOCTOR" THEN {workTarget(w, lms, LAMBDA l : l.type = "town_hall")}
     ELSE IF type = "FARMER" THEN {workTarget(w, lms, LAMBDA l : l.type = "farm")}
     ELSE IF type = "MERCHANT" THEN {workTarget(w, lms, LAMBDA l : l.type = "market")}
     ELSE IF type = "GOVERNMENT_OFFICIAL"
     THEN {workTarget(w, lms, LAMBDA l : isGovernmentBuilding(l.type))}
     ELSE IF type = "BUILDER" /\ ~w.isBuilding
     THEN {w, [w EXCEPT !.state = "seeking_resource"]}
     ELSE {w}

\* RoutineSystem.handleWorkRoutine
handleWorkRoutine(c, hour, lms) ==
  IF ~isEmployed(c) THEN {performRoutine(c, "waking_up")}
  ELSE IF isWorkingHours(c.job[1], hour)
  THEN performJobWork(performRoutine(c, "working"), lms)
  ELSE {performRoutine(c, "waking_up")}

\* RoutineSystem.handleEveningRoutine
handleEveningRoutine(c, lms) ==
  LET a == performRoutine(c, "evening_activities")
      rest == IF a.nenergy < Pts(50) THEN {goHome(a, lms)}
              ELSE IF a.target = Null THEN {[a EXCEPT !.state = "wandering"]}
              ELSE {a, [a EXCEPT !.state = "wandering"]}
  IN IF a.social < Pts(50) THEN {[a EXCEPT !.state = "socializing"]} \cup rest
     ELSE rest

\* RoutineSystem.updateCitizenRoutine
updateCitizenRoutine(c, timeOfDay, lms, tick) ==
  IF timeOfDay.period = "night" THEN {handleNightRoutine(c, lms)}
  ELSE IF timeOfDay.period = "morning" THEN handleMorningRoutine(c, tick)
  ELSE IF timeOfDay.period = "work" THEN handleWorkRoutine(c, timeOfDay.hour, lms)
  ELSE handleEveningRoutine(c, lms)

\* The loop body without the emergency override.
routineOfWithoutOverride(c, timeOfDay, lms, tick) ==
  IF c.isDetained THEN {performRoutine(c, "sleeping")}
  ELSE updateCitizenRoutine(c, timeOfDay, lms, tick)

\* The body of the loop of RoutineSystem.update for one citizen.
routineOf(c, timeOfDay, lms, tick) ==
  IF c.isDetained THEN {performRoutine(c, "sleeping")}
  ELSE IF c.hunger < Pts(20) \/ c.nenergy < Pts(20) THEN {c}
  ELSE updateCitizenRoutine(c, timeOfDay, lms, tick)

\* RoutineSystem.update: the citizen lists it can leave.
routineUpdate(cs, lms, tick) ==
  LET timeOfDay == getTimeOfDay(tick)
      F[k \in 0..Len(cs)] ==
        IF k = 0 THEN {cs}
        ELSE UNION {{[v EXCEPT ![k] = c] : c \in routineOf(v[k], timeOfDay, lms, tick)}
                    : v \in F[k - 1]}
  IN F[Len(cs)]

\* ----------------------------------------------------------- CrimeSystem

\* CRIME_DEFINITIONS: socialCreditPenalty and detentionTime by crime type.
CRIME_DEFINITIONS ==
  [THEFT       |-> [socialCreditPenalty |-> 50,  detentionTime |-> 100],
   VANDALISM   |-> [socialCreditPenalty |-> 80,  detentionTime |-> 150],
   ASSAULT     |-> [socialCreditPenalty |-> 100, detentionTime |-> 200],
   TRESPASSING |-> [socialCreditPenalty |-> 20,  detentionTime |-> 50],
   TAX_EVASION |-> [socialCreditPenalty |-> 40,  detentionTime |-> 80]]

crimeCheckInterval == 10

\* The crime record the commit* methods build; w is [cs, crimes, counter, new]
\* and i the perpetrator.
recordCrime(w, i, type, tick) ==
  LET crime == [id |-> w.counter, type |-> type, perpetrator |-> i,
                location |-> w.cs[i].position, tick |-> tick,
                detected |-> FALSE, resolved |-> FALSE]
  IN [cs |-> [w.cs EXCEPT ![i] = commitCrime(@, CRIME_DEFINITIONS[type].socialCreditPenalty)],
      crimes |-> Append(w.crimes, crime),
      counter |-> w.counter + 1,
      new |-> Append(w.new, crime)]

\* CrimeSystem.commitTheft
commitTheft(w, i, rs, tick) ==
  IF \E k \in 1..Len(rs) : ~rs[k].collected /\ Within(w.cs[i].position, rs[k].position, 3)
  THEN recordCrime(w, i, "THEFT", tick)
  ELSE w

\* CrimeSystem.commitVandalism
commitVandalism(w, i, lms, tick) ==
  IF \E k \in 1..Len(lms) :
       /\ ~isGovernmentBuilding(lms[k].type)
       /\ lms[k].type # "boundary"
       /\ Within(w.cs[i].position, lms[k].position, 2)
  THEN recordCrime(w, i, "VANDALISM", tick)
  ELSE w

\* CrimeSystem.commitAssault: the first nearby citizen is the victim.
commitAssault(w, i, tick) ==
  LET nearbyCitizens ==
        SelectSeq([k \in 1..Len(w.cs) |-> k],
                  LAMBDA k : k # i /\ Within(w.cs[i].position, w.cs[k].position, 1))
      r == recordCrime(w, i, "ASSAULT", tick)
  IN IF nearbyCitizens = <<>> THEN w
     ELSE [r EXCEPT !.cs[nearbyCitizens[1]] = updateGovernmentSatisfaction(@, 0 - Pts(10))]

\* commitTrespassing without the test of the citizen's cell.
commitTrespassingAnywhere(w, i, lms, tick) ==
  IF w.cs[i].governmentRole = "independent"
  THEN recordCrime(w, i, "TRESPASSING", tick)
  ELSE w

\* CrimeSystem.commitTrespassing
commitTrespassing(w, i, lms, tick) ==
  IF /\ \E k \in 1..Len(lms) :
          isGovernmentBuilding(lms[k].type) /\ lms[k].position = w.cs[i].position
     /\ w.cs[i].governmentRole = "independent"
  THEN recordCrime(w, i, "TRESPASSING", tick)
  ELSE w

\* CrimeSystem.evaluateCrimeBehavior: the first check whose draw succeeds
\* decides, whether or not its crime can be committed.
evaluateCrimeBehavior(w, i, lms, rs, tick) ==
  LET c == w.cs[i]
      theft == IF ~isEmployed(c) \/ c.satisfaction < Pts(30)
               THEN {commitTheft(w, i, rs, tick)} ELSE {}
      vandalism == IF c.satisfaction < Pts(20)
                   THEN {commitVandalism(w, i, lms, tick)} ELSE {}
      assault == IF c.satisfaction < Pts(15)
                 THEN {commitAssault(w, i, tick)} ELSE {}
      trespassing == IF c.socialCredit < Pts(300)
                     THEN {commitTrespassing(w, i, lms, tick)} ELSE {}
  IN theft \cup vandalism \cup assault \cup trespassing \cup {w}

\* CrimeSystem.updateSocialCreditDecay for one citizen
creditDecay(c) ==
  LET a == IF ~c.isCriminal /\ c.satisfaction > Pts(60)
           THEN updateSocialCredit(c, Pts(1)) ELSE c
      b == IF a.isDetained THEN updateSocialCredit(a, 100) ELSE a
  IN IF isModelCitizen(b)
     THEN [b EXCEPT !.satisfaction = Min(Pts(100), b.satisfaction + Pts(1))]
     ELSE b

\* CrimeSystem.updateSocialCreditDecay
updateSocialCreditDecay(cs, tick) ==
  IF tick % 100 # 0 THEN cs
  ELSE [k \in 1..Len(cs) |-> creditDecay(cs[k])]

\* CrimeSystem.update cleaning up by age alone.
crimeUpdateCleaningOld(cs, cr, counter, lms, rs, tick) ==
  LET w0 == [cs |-> cs, crimes |-> cr, counter |-> counter, new |-> <<>>]
      F[k \in 0..Len(cs)] ==
        IF k = 0 THEN {w0}
        ELSE UNION {IF w.cs[k].isDetained \/ w.cs[k].state = "fleeing" THEN {w}
                    ELSE evaluateCrimeBehavior(w, k, lms, rs, tick)
                    : w \in F[k - 1]}
      checked == IF tick % crimeCheckInterval = 0 THEN F[Len(cs)] ELSE {w0}
  IN {[w EXCEPT !.cs = updateSocialCreditDecay(w.cs, tick),
                !.crimes = SelectSeq(w.crimes, LAMBDA c : tick - c.tick < 500)]
      : w \in checked}

\* CrimeSystem.update: the results [cs, crimes, counter, new] it can leave.
crimeUpdate(cs, cr, counter, lms, rs, tick) ==
  LET w0 == [cs |-> cs, crimes |-> cr, counter |-> counter, new |-> <<>>]
      F[k \in 0..Len(cs)] ==
        IF k = 0 THEN {w0}
        ELSE UNION {IF w.cs[k].isDetained \/ w.cs[k].state = "fleeing" THEN {w}
                    ELSE evaluateCrimeBehavior(w, k, lms, rs, tick)
                    : w \in F[k - 1]}
      checked == IF tick % crimeCheckInterval = 0 THEN F[Len(cs)] ELSE {w0}
  IN {[w EXCEPT !.cs = updateSocialCreditDecay(w.cs, tick),
                !.crimes = SelectSeq(w.crimes,
                                     LAMBDA c : ~c.resolved \/ tick - c.tick < 500)]
      : w \in checked}

\* getActiveCrimes returning only the unresolved crimes the police has detected.
getDetectedCrimes(cr) == SelectIdx(cr, LAMBDA c : ~c.resolved /\ c.detected)

\* CrimeSystem.getActiveCrimes: the positions in the list of the unresolved crimes.
getActiveCrimes(cr) == SelectIdx(cr, LAMBDA c : ~c.resolved)

\* CrimeSystem.resolveCrime / detectCrime, by position in the list
resolveCrime(cr, k) == [cr EXCEPT ![k].resolved = TRUE]

detectCrime(cr, k) == [cr EXCEPT ![k].detected = TRUE]

\* ---------------------------------------------------------- PoliceSystem

detectionRange == 8

arrestRange == 1

patrolChangeInterval == 50

patrolRadius == 10

\* PoliceSystem.findNearestPoliceStation: the station's position, or null.
findNearestPoliceStation(position, lms) ==
  LET stations == SelectIdx(lms, LAMBDA l : l.type = "police_station")
      PosOf(i) == lms[i].position
  IN IF stations = <<>> THEN Null
     ELSE Some(lms[NearestFirst(position, stations, PosOf)].position)

\* The eight points of the circle generatePatrolRoute builds around center.
patrolPoints(center) ==
  LET r == patrolRadius
  IN <<Pos(center.x + r, center.y),     Pos(center.x + r, center.y + r),
       Pos(center.x, center.y + r),     Pos(center.x - r, center.y + r),
       Pos(center.x - r, center.y),     Pos(center.x - r, center.y - r),
       Pos(center.x, center.y - r),     Pos(center.x + r, center.y - r)>>

\* PoliceSystem.generatePatrolRoute; currentIndex counts from 0 as in the source.
generatePatrolRoute(station) ==
  IF station = Null THEN Null
  ELSE Some([points |-> patrolPoints(station[1]), currentIndex |-> 0])

\* PoliceSystem.identifyOfficers: officers are kept in the order they were
\* registered; targetCriminal is a citizen id or 0.
identifyOfficers(offs, cs, lms) ==
  LET isPolice(c) == c.job # Null /\ c.job[1].type = "POLICE_OFFICER"
      F[k \in 0..Len(cs)] ==
        IF k = 0 THEN offs
        ELSE IF isPolice(cs[k]) /\ \A n \in 1..Len(F[k - 1]) : F[k - 1][n].citizen # k
        THEN LET station == findNearestPoliceStation(cs[k].position, lms)
             IN Append(F[k - 1], [citizen |-> k,
                                  patrolRoute |-> generatePatrolRoute(station),
                                  targetCriminal |-> 0,
                                  stationBase |-> station])
        ELSE F[k - 1]
  IN SelectSeq(F[Len(cs)], LAMBDA o : isPolice(cs[o.citizen]))

\* PoliceSystem.findNearbyCrimes over the crimes handed to update
findNearbyCrimes(officer, cr, active) ==
  SelectSeq(active, LAMBDA k : ~cr[k].resolved
                               /\ Within(officer.position, cr[k].location, detectionRange))

\* PoliceSystem.findNearbyCriminals
findNearbyCriminals(id, cs) ==
  SelectSeq([k \in 1..Len(cs) |-> k],
            LAMBDA k : /\ k # id
                       /\ cs[k].isCriminal
                       /\ ~cs[k].isDetained
                       /\ Within(cs[id].position, cs[k].position, detectionRange))

\* arrestCriminal with the base detention for everybody.
arrestCriminalUntiered(criminal, tick) == getArrested(criminal, 100, tick)

\* PoliceSystem.arrestCriminal
arrestCriminal(criminal, tick) ==
  LET detentionTime == IF criminal.socialCredit < Pts(100) THEN 200
                       ELSE IF criminal.socialCredit < Pts(200) THEN 150
                       ELSE 100
  IN getArrested(criminal, detentionTime, tick)

\* pursueCriminal arresting at detection range.
inDetectionRange(p, q) == Within(p, q, detectionRange)

\* "distance <= this.config.arrestRange" of pursueCriminal
inArrestRange(p, q) == Within(p, q, arrestRange)

\* pursueCriminal without its test of criminal.isDetained.
pursueCriminalDetained(w, n, tick) ==
  LET cop == w.officers[n].citizen
      t == w.officers[n].targetCriminal
      criminal == w.cs[t]
      p == w.cs[cop].position
      q == criminal.position
  IN IF inArrestRange(p, q)
     THEN [result |-> "arrested",
           w |-> [w EXCEPT !.cs[t] = arrestCriminal(criminal, tick),
                           !.arrests = Append(@, t)]]
     ELSE [result |-> IF Within(p, q, detectionRange * 2) THEN "pursuing" ELSE "lost",
           w |-> [w EXCEPT !.cs = [@ EXCEPT ![cop].target = Some(q)]]]

\* PoliceSystem.pursueCriminal for officer n of w = [cs, officers, crimes,
\* arrests, detected, log]: the result and the world it leaves.
pursueCriminal(w, n, tick) ==
  LET cop == w.officers[n].citizen
      t == w.officers[n].targetCriminal
      criminal == w.cs[t]
      p == w.cs[cop].position
      q == criminal.position
      flee == IF criminal.state # "fleeing"
              THEN [criminal EXCEPT
                      !.state = "fleeing",
                      !.target = Some(Pos(q.x + Sign(q.x - p.x) * 5,
                                          q.y + Sign(q.y - p.y) * 5))]
              ELSE criminal
  IN IF criminal.isDetained THEN [result |-> "lost", w |-> w]
     ELSE IF inArrestRange(p, q)
     THEN [result |-> "arrested",
           w |-> [w EXCEPT !.cs[t] = arrestCriminal(criminal, tick),
                           !.arrests = Append(@, t)]]
     ELSE [result |-> IF Within(p, q, detectionRange * 2) THEN "pursuing" ELSE "lost",
           w |-> [w EXCEPT !.cs = [@ EXCEPT ![cop].target = Some(q), ![t] = flee]]]

\* PoliceSystem.patrol for officer n
patrol(w, n, tick) ==
  LET o == w.officers[n]
      cop == o.citizen
      route == IF o.patrolRoute = Null THEN generatePatrolRoute(o.stationBase)
               ELSE o.patrolRoute
  IN IF route = Null
     THEN [w EXCEPT !.officers[n].patrolRoute = route]
     ELSE LET r == route[1]
              targetPoint == r.points[r.currentIndex + 1]
              next == IF w.cs[cop].position = targetPoint
                      THEN [r EXCEPT !.currentIndex = (@ + 1) % Len(r.points)]
                      ELSE r
          IN [w EXCEPT
                !.cs[cop] = [@ EXCEPT !.target = Some(targetPoint), !.state = "working"],
                !.officers[n].patrolRoute =
                   IF tick % patrolChangeInterval = 0
                   THEN generatePatrolRoute(o.stationBase)
                   ELSE Some(next)]

\* One officer's turn in the loop of PoliceSystem.update, for officer n.  The
\* turn is logged with the target, its distance test, its detention flag and
\* its social credit as they were when the turn began.
officerTurn(w, n, active, tick) ==
  LET o == w.officers[n]
      cop == o.citizen
      nearbyActiveCrimes == findNearbyCrimes(w.cs[cop], w.crimes, active)
      nearbyCriminals == findNearbyCriminals(cop, w.cs)
      undetected == SelectSeq(nearbyActiveCrimes, LAMBDA k : ~w.crimes[k].detected)
      seen == [w EXCEPT
                 !.detected = @ \o undetected,
                 !.crimes = [k \in 1..Len(w.crimes) |->
                               IF \E m \in 1..Len(undetected) : undetected[m] = k
                               THEN [w.crimes[k] EXCEPT !.detected = TRUE]
                               ELSE w.crimes[k]]]
      PosOf(k) == w.cs[k].position
      turn(result) ==
        [officer |-> cop, target |-> o.targetCriminal,
         inRange |-> o.targetCriminal # 0
                     /\ Within(w.cs[cop].position, w.cs[o.targetCriminal].position, arrestRange),
         targetDetained |-> o.targetCriminal # 0 /\ w.cs[o.targetCriminal].isDetained,
         credit |-> IF o.targetCriminal # 0 THEN w.cs[o.targetCriminal].socialCredit ELSE 0,
         result |-> result]
  IN IF w.cs[cop].isDetained THEN w
     ELSE IF o.targetCriminal # 0
     THEN LET r == pursueCriminal(seen, n, tick)
          IN [r.w EXCEPT
                !.officers[n].targetCriminal = IF r.result = "pursuing" THEN @ ELSE 0,
                !.log = Append(@, turn(r.result))]
     ELSE IF nearbyCriminals # <<>>
     THEN [seen EXCEPT
             !.officers[n].targetCriminal = NearestFirst(w.cs[cop].position, nearbyCriminals, PosOf),
             !.cs[cop].state = "commuting",
             !.log = Append(@, turn("targeted"))]
     ELSE [patrol(seen, n, tick) EXCEPT !.log = Append(@, turn("patrol"))]

\* PoliceSystem.update over the active crimes World.tick hands it.
policeUpdate(cs, offs, cr, lms, tick) ==
  LET active == getActiveCrimes(cr)
      w0 == [cs |-> cs, officers |-> identifyOfficers(offs, cs, lms), crimes |-> cr,
             arrests |-> <<>>, detected |-> <<>>, log |-> <<>>]
      F[n \in 0..Len(w0.officers)] ==
        IF n = 0 THEN w0 ELSE officerTurn(F[n - 1], n, active, tick)
  IN F[Len(w0.officers)] @@ [active |-> active]

\* "Track arrest events" of World.tick: one event per arrest, and every crime
\* handed to the sweep whose perpetrator was arrested is resolved.
trackArrests(w, ev, tick) ==
  LET F[k \in 0..Len(w.arrests)] ==
        IF k = 0 THEN [ev |-> ev, crimes |-> w.crimes]
        ELSE [ev |-> Append(F[k - 1].ev, Event("arrest", tick)),
              crimes |-> [m \in 1..Len(w.crimes) |->
                            IF /\ \E a \in 1..Len(w.active) : w.active[a] = m
                               /\ w.crimes[m].perpetrator = w.arrests[k]
                            THEN [F[k - 1].crimes[m] EXCEPT !.resolved = TRUE]
                            ELSE F[k - 1].crimes[m]]]
  IN F[Len(w.arrests)]

\* ---------------------------------------------------------- api/world.js
\* The session layer: worldInstances and sessionLocks for one session.  The
\* handler has no await: a request runs from its first statement to its
\* response before the next request of the process starts.

\* A response: HTTP status, error or warning code, world state sent.
Reply(status, code, state) == [status |-> status, code |-> code, state |-> state]

\* POST /api/world: the session of a new world, unlocked, nothing cached.
NewSession == [lock |-> FALSE, lastGoodState |-> Null, reply |-> Reply(200, "", Null)]

\* The worldState a tick request builds after world.tick().
worldStateOf(tick, cs, rs, lms, builds, births, ev) ==
  [population |-> Len(cs),
   resources |-> Cardinality({k \in 1..Len(rs) : ~rs[k].collected}),
   landmarks |-> Cardinality({k \in 1..Len(lms) : lms[k].type # "boundary"}),
   buildings |-> builds, births |-> births, ticks |-> tick, events |-> ev]

\* "Check if tick is already in progress": the answer of a request that
\* finds the lock set.
tickInProgress(s) == [s EXCEPT !.reply = Reply(429, "TICK_IN_PROGRESS", Null)]

\* A tick request that goes on without taking the lock.
acquireLockSkipped(s) == s

\* "Acquire lock"
acquireLock(s) == [s EXCEPT !.lock = TRUE]

\* A request that ends without releasing the lock.
releaseLockForgotten(s) == s

\* finally: "Always release the lock"
releaseLock(s) == [s EXCEPT !.lock = FALSE]

\* A tick request that answers every error of world.tick() with TICK_FAILED.
tickThrewUnrecovered(s) == releaseLock([s EXCEPT !.reply = Reply(500, "TICK_FAILED", Null)])

\* catch (tickError): the cached state with a warning if there is one, else
\* the error goes to the outer catch and its TICK_FAILED; then the finally.
tickThrew(s) ==
  releaseLock([s EXCEPT !.reply = IF s.lastGoodState # Null
                                  THEN Reply(200, "RECOVERED_FROM_ERROR", s.lastGoodState)
                                  ELSE Reply(500, "TICK_FAILED", Null)])

\* The request after world.tick() returned: the state is built, cached and
\* sent; then the finally.
tickReturned(s, worldState) ==
  releaseLock([s EXCEPT !.lastGoodState = Some(worldState),
                        !.reply = Reply(200, "", Some(worldState))])

\* ------------------------------------------- api/world.js: the sessions
\* worldInstances as the list of the sessions' lastAccessedAt in insertion
\* order, with Date.now() and lastCleanupTime, all in whole minutes since the
\* module was loaded.

MAX_SESSIONS == 50

\* SESSION_TTL_MS and CLEANUP_INTERVAL_MS in minutes
SESSION_TTL_MIN == 30

CLEANUP_INTERVAL_MIN == 5

\* The module `now` minutes after it was loaded and n worlds were created in
\* its first minute; no request since.
StoreAt(now, n) ==
  [now |-> now, lastCleanupTime |-> 0, sessions |-> [k \in 1..n |-> 0],
   requests |-> 0, waited |-> 0]

\* The list without the n least recently accessed entries: the first n of
\* Array.sort by lastAccessedAt, which is stable.
evictLeastRecentlyAccessed(sessions, n) ==
  LET before(j, k) == sessions[j] < sessions[k] \/ (sessions[j] = sessions[k] /\ j < k)
      rank(k) == Cardinality({j \in 1..Len(sessions) : before(j, k)})
      F[k \in 0..Len(sessions)] ==
        IF k = 0 THEN <<>>
        ELSE IF rank(k) < n THEN F[k - 1] ELSE Append(F[k - 1], sessions[k])
  IN F[Len(sessions)]

\* performSessionCleanup run whenever it is called.
performSessionCleanupEveryTime(st) ==
  LET alive == SelectSeq(st.sessions, LAMBDA a : ~(st.now - a > SESSION_TTL_MIN))
  IN [st EXCEPT
        !.lastCleanupTime = st.now,
        !.sessions = IF Len(alive) > MAX_SESSIONS
                     THEN evictLeastRecentlyAccessed(alive, Len(alive) - MAX_SESSIONS)
                     ELSE alive]

\* performSessionCleanup
performSessionCleanup(st) ==
  IF st.now - st.lastCleanupTime < CLEANUP_INTERVAL_MIN THEN st
  ELSE LET alive == SelectSeq(st.sessions, LAMBDA a : ~(st.now - a > SESSION_TTL_MIN))
       IN [st EXCEPT
             !.lastCleanupTime = st.now,
             !.sessions = IF Len(alive) > MAX_SESSIONS
                          THEN evictLeastRecentlyAccessed(alive, Len(alive) - MAX_SESSIONS)
                          ELSE alive]

\* POST /api/world: the session is stored, then the cleanup runs; a world
\* that cannot be built answers CREATE_FAILED and stores nothing.
createWorld(st, built) ==
  IF built THEN performSessionCleanup([st EXCEPT !.sessions = Append(@, st.now)])
  ELSE st

\* validateSession and the access stamp of a tick request for the k-th
\* stored session: an expired session is deleted, a live one is stamped.
touchSession(st, k) ==
  IF st.now - st.sessions[k] > SESSION_TTL_MIN
  THEN [st EXCEPT !.sessions = SubSeq(@, 1, k - 1) \o SubSeq(@, k + 1, Len(@))]
  ELSE [st EXCEPT !.sessions[k] = st.now]

\* ------------------------------------------------ public/app.js: the page
\* The EmojiWorldApp of one page: its fields, the two buttons it disables, the
\* interval timers of the window that were set and not cleared, and its
\* requests in flight.  sessionId and tickInterval are 0 for null.  An async
\* method runs up to its first await; what follows the await is a step of its
\* own, taken when the response arrives.

\* The speeds of the slider the model uses.
Speeds == {5, 10}

\* new EmojiWorldApp(), with the pause button as the page's markup has it.
PageLoaded(pauseDisabled) ==
  [sessionId |-> 0, isRunning |-> FALSE, tickInterval |-> 0, speed |-> 5,
   startDisabled |-> FALSE, pauseDisabled |-> pauseDisabled,
   timers |-> {}, timersSet |-> 0, creating |-> 0, ticking |-> 0,
   sessionsCreated |-> 0, stopped |-> TRUE, actions |-> 0, fired |-> 0]

\* pause()
pause(app) ==
  [app EXCEPT !.isRunning = FALSE, !.startDisabled = FALSE, !.pauseDisabled = TRUE,
              !.timers = IF app.tickInterval # 0 THEN @ \ {app.tickInterval} ELSE @,
              !.tickInterval = 0,
              !.stopped = TRUE]

\* start() from "this.isRunning = true" on: the buttons and setInterval.
startRunning(app) ==
  [app EXCEPT !.isRunning = TRUE, !.startDisabled = TRUE, !.pauseDisabled = FALSE,
              !.timers = @ \cup {app.timersSet + 1},
              !.tickInterval = app.timersSet + 1,
              !.timersSet = @ + 1]

\* start() up to its first await: without a session the create request is
\* sent and the method waits; with one it runs to its end.
start(app) ==
  LET called == [app EXCEPT !.stopped = FALSE]
  IN IF app.sessionId = 0 THEN [called EXCEPT !.creating = @ + 1]
     ELSE startRunning(called)

\* start() after the create request was answered: a failure is shown, a
\* session id is stored and the simulation runs.
startResumes(app, ok) ==
  LET answered == [app EXCEPT !.creating = @ - 1]
  IN IF ok
     THEN startRunning([answered EXCEPT !.sessionId = app.sessionsCreated + 1,
                                         !.sessionsCreated = @ + 1])
     ELSE answered

\* reset()
reset(app) == [pause(app) EXCEPT !.sessionId = 0]

\* The input listener of the speed slider.
setSpeed(app, v) ==
  LET set == [app EXCEPT !.speed = v]
  IN IF app.isRunning THEN start(pause(set)) ELSE set

\* The answers a tick request can get: the state; 404 with the user's answer
\* to confirm(); a 5xx status; anything that makes tick() throw.
TickAnswers == {"ok", "lost_recover", "lost_stop", "server_error", "failed"}

\* tick() after its request was answered.
tickResumes(app, answer) ==
  LET answered == [app EXCEPT !.ticking = @ - 1]
  IN CASE answer = "lost_recover" -> start(pause([answered EXCEPT !.sessionId = 0]))
       [] answer = "lost_stop" -> pause([answered EXCEPT !.sessionId = 0])
       [] answer = "failed" -> pause(answered)
       [] OTHER -> answered

\* ------------------------------------------------------------ World.tick
\* tick() is one action per pass; pc names the pass that runs next.  The
\* citizen loop is one action per body, in index order: citizens pushed during
\* the loop are visited in the same tick, as the loop re-reads the length.

\* tick() with the police sweep before the crime evaluation.
PassAfterPoliceFirst ==
  [citizens |-> "formation", formation |-> "processing", processing |-> "routine",
   routine |-> "police", police |-> "crime", crime |-> "release",
   release |-> "respawn", respawn |-> "idle"]

\* The pass that follows each pass: the order of the statements of tick().
PassAfter ==
  [citizens |-> "formation", formation |-> "processing", processing |-> "routine",
   routine |-> "crime", crime |-> "police", police |-> "release",
   release |-> "respawn", respawn |-> "idle"]

NoStep == [i |-> 0, tick |-> 0, pre |-> <<>>, upd |-> <<>>, mid |-> <<>>, post |-> <<>>,
           placed |-> FALSE, born |-> FALSE, threw |-> {}]

\* The core data structures tick() validates before anything else.
coreStructures == {"grid", "citizens", "resources", "landmarks"}

\* As if tick() did not validate the world.
stateIsIntactUnchecked(f) == TRUE

\* The validation of tick(): the grid is a Grid and the three collections are
\* arrays.
stateIsIntact(f) == \A d \in coreStructures : <<"corrupt", d>> \notin f

\* Every catch block of a pass ends the tick.
passAfterErrorReturns(pass) == "idle"

\* The catch block of a pass logs the error; tick() goes on with the statement
\* after the try.
passAfterError(pass) == PassAfter[pass]

\* The catch block of a pass: the pass has changed nothing, the error is logged.
Caught(pass, state) ==
  /\ caught' = caught \cup {<<pass>>}
  /\ pc' = passAfterError(pass)
  /\ UNCHANGED state

\* tick(): tickCount++ and the state validation; a world that fails it makes
\* tick() log and throw, and the caller's next tick() starts the same way.
\* In a session tick() is called by a tick request: the request answers 429 if
\* it finds the lock set, else takes the lock, and a tick() that throws ends
\* the request in its catch blocks.
TickStart ==
  /\ pc = "idle"
  /\ tickCount < horizon
  /\ IF session # Null /\ session.lock
     THEN /\ session' = tickInProgress(session)
          /\ UNCHANGED <<tickCount, pc, caught>>
     ELSE /\ tickCount' = tickCount + 1
          /\ IF stateIsIntact(faults)
             THEN /\ pc' = IF Len(citizens) = 0 THEN PassAfter["citizens"] ELSE "citizens"
                  /\ caught' = {}
                  /\ session' = IF session = Null THEN Null ELSE acquireLock(session)
             ELSE /\ pc' = "idle"
                  /\ caught' = {<<"tick">>}
                  /\ session' = IF session = Null THEN Null
                                ELSE tickThrew(acquireLock(session))
  /\ ci' = 1
  /\ UNCHANGED <<grid, citizens, resources, landmarks, governments, crimes,
                 crimeIdCounter, officers, events, totalBuildings, totalBirths,
                 lastStep, policeLog, horizon, store, client, faults, currentTime>>

\* The loop body for citizen ci once its position is valid: update, collection,
\* building placement, breeding.
LoopBody(cs0) ==
  \E c1 \in IF <<"update", ci>> \in faults THEN {cs0[ci]}
            ELSE update(ci, grid, cs0, resources, landmarks, tickCount) :
    LET w == afterUpdate(ci, c1, grid, cs0, resources, landmarks, events,
                         totalBuildings, totalBirths, tickCount, faults)
    IN /\ citizens' = w.cs
       /\ resources' = w.rs
       /\ landmarks' = w.lms
       /\ events' = w.ev
       /\ totalBuildings' = w.totalBuildings
       /\ totalBirths' = w.totalBirths
       /\ caught' = caught \cup {<<block, ci>> : block \in w.threw}
       /\ lastStep' = [i |-> ci, tick |-> tickCount, pre |-> citizens, upd |-> w.upd,
                       mid |-> w.mid, post |-> w.cs, placed |-> w.placed,
                       born |-> w.born, threw |-> w.threw]

\* The loop body skipped by `continue`: no safe position was found.
LoopSkip ==
  UNCHANGED <<citizens, resources, landmarks, events, totalBuildings, totalBirths,
              lastStep, caught>>

\* One iteration of "for (let i = 0; i < this.citizens.length; i++)".
CitizenStep ==
  /\ pc = "citizens"
  /\ ci <= Len(citizens)
  /\ IF isValidPosition(grid, citizens[ci].position)
     THEN LoopBody(citizens)
     ELSE \E safePos \in getRandomEmptyPosition(grid, citizens, resources, landmarks) :
            IF safePos = Null THEN LoopSkip
            ELSE LoopBody([citizens EXCEPT ![ci].position = safePos[1]])
  /\ ci' = ci + 1
  /\ pc' = IF ci + 1 > Len(citizens') THEN PassAfter["citizens"] ELSE "citizens"
  /\ UNCHANGED <<grid, tickCount, governments, crimes, crimeIdCounter, officers,
                 policeLog, horizon, store, client, faults, session, currentTime>>

\* this.checkGovernmentFormation()
GovernmentFormation ==
  /\ pc = "formation"
  /\ IF <<"formation">> \in faults
     THEN Caught("formation", <<citizens, governments, events>>)
     ELSE /\ \E w \in checkGovernmentFormation(citizens, governments, events, landmarks,
                                               tickCount) :
               /\ citizens' = w.cs
               /\ governments' = w.govs
               /\ events' = w.ev
          /\ pc' = PassAfter["formation"]
          /\ UNCHANGED caught
  /\ UNCHANGED <<grid, tickCount, resources, landmarks, crimes, crimeIdCounter,
                 officers, totalBuildings, totalBirths, ci, lastStep, policeLog, horizon, store, client,
                 faults, session, currentTime>>

\* this.processGovernments()
ProcessGovernments ==
  /\ pc = "processing"
  /\ IF <<"processing">> \in faults
     THEN Caught("processing", <<citizens, governments, events>>)
     ELSE /\ \E w \in processGovernments(citizens, governments, events, landmarks,
                                         tickCount) :
               /\ citizens' = w.cs
               /\ governments' = w.govs
               /\ events' = w.ev
          /\ pc' = PassAfter["processing"]
          /\ UNCHANGED caught
  /\ UNCHANGED <<grid, tickCount, resources, landmarks, crimes, crimeIdCounter,
                 officers, totalBuildings, totalBirths, ci, lastStep, policeLog, horizon, store, client,
                 faults, session, currentTime>>

\* this.routineSystem.update(...)
RoutineUpdate ==
  /\ pc = "routine"
  /\ IF <<"routine">> \in faults
     THEN Caught("routine", <<citizens, currentTime>>)
     ELSE /\ currentTime' = Some(getTimeOfDay(tickCount))
          /\ citizens' \in routineUpdate(citizens, landmarks, tickCount)
          /\ pc' = PassAfter["routine"]
          /\ UNCHANGED caught
  /\ UNCHANGED <<grid, tickCount, resources, landmarks, governments, crimes,
                 crimeIdCounter, officers, events, totalBuildings, totalBirths, ci,
                 lastStep, policeLog, horizon, store, client, faults, session>>

\* this.crimeSystem.update(...) and one crime event per new crime
CrimeUpdate ==
  /\ pc = "crime"
  /\ IF <<"crime">> \in faults
     THEN Caught("crime", <<citizens, crimes, crimeIdCounter, events>>)
     ELSE /\ \E w \in crimeUpdate(citizens, crimes, crimeIdCounter, landmarks, resources,
                                  tickCount) :
               /\ citizens' = w.cs
               /\ crimes' = w.crimes
               /\ crimeIdCounter' = w.counter
               /\ events' = events \o [k \in 1..Len(w.new) |-> Event("crime", tickCount)]
          /\ pc' = PassAfter["crime"]
          /\ UNCHANGED caught
  /\ UNCHANGED <<grid, tickCount, resources, landmarks, governments, officers,
                 totalBuildings, totalBirths, ci, lastStep, policeLog, horizon, store, client, faults, session, currentTime>>

\* this.policeSystem.update(...), the detections, the arrest events and the
\* resolution of the arrested citizens' crimes
PoliceUpdate ==
  /\ pc = "police"
  /\ IF <<"police">> \in faults
     THEN Caught("police", <<citizens, officers, crimes, events, policeLog>>)
     ELSE /\ LET w == policeUpdate(citizens, officers, crimes, landmarks, tickCount)
                 t == trackArrests(w, events, tickCount)
             IN /\ citizens' = w.cs
                /\ officers' = w.officers
                /\ crimes' = t.crimes
                /\ events' = t.ev
                /\ policeLog' = w.log
          /\ pc' = PassAfter["police"]
          /\ UNCHANGED caught
  /\ UNCHANGED <<grid, tickCount, resources, landmarks, governments, crimeIdCounter,
                 totalBuildings, totalBirths, ci, lastStep, horizon, store, client, faults, session, currentTime>>

\* "Release detained citizens whose time is up"
ReleaseDetained ==
  /\ pc = "release"
  /\ citizens' = [k \in 1..Len(citizens) |->
                    IF citizens[k].isDetained /\ tickCount >= citizens[k].detentionEndTime
                    THEN releaseFromDetention(citizens[k])
                    ELSE citizens[k]]
  /\ pc' = PassAfter["release"]
  /\ UNCHANGED <<grid, tickCount, resources, landmarks, governments, crimes,
                 crimeIdCounter, officers, events, totalBuildings, totalBirths, ci,
                 lastStep, policeLog, horizon, store, client, faults, caught, session, currentTime>>

\* Resource.respawn
respawn(r, position) == [r EXCEPT !.position = position, !.collected = FALSE]

\* "Respawn resources": on the draw, one collected resource moves to a free cell.
\* It is the last statement of tick(): in a session the tick request goes on
\* with its response and world.clearEvents().
RespawnResources ==
  /\ pc = "respawn"
  /\ \/ UNCHANGED resources
     \/ \E k \in 1..Len(resources) :
          /\ resources[k].collected
          /\ \E newPos \in getRandomEmptyPosition(grid, citizens, resources, landmarks) :
               resources' = IF newPos = Null THEN resources
                            ELSE [resources EXCEPT ![k] = respawn(@, newPos[1])]
  /\ pc' = PassAfter["respawn"]
  /\ IF session = Null
     THEN UNCHANGED <<events, session>>
     ELSE /\ session' = tickReturned(session,
                                     worldStateOf(tickCount, citizens, resources', landmarks,
                                                  totalBuildings, totalBirths, events))
          /\ events' = <<>>
  /\ UNCHANGED <<grid, tickCount, citizens, landmarks, governments, crimes,
                 crimeIdCounter, officers, totalBuildings, totalBirths, ci,
                 lastStep, policeLog, horizon, store, client, faults, caught,
                 currentTime>>

Next ==
  \/ TickStart
  \/ CitizenStep
  \/ GovernmentFormation
  \/ ProcessGovernments
  \/ RoutineUpdate
  \/ CrimeUpdate
  \/ PoliceUpdate
  \/ ReleaseDetained
  \/ RespawnResources

\* -------------------------------------------------- World.initialize
\* The configuration is the input of the constructor; the model runs small
\* configurations.  getRandomEmptyPosition draws are fixed to one free cell per
\* placement below: which free cell an entity starts on is a parameter of the
\* configurations, not of the claims.

\* World.createBoundaries: top and bottom rows by x, then the two sides by y.
createBoundaries(g) ==
  [k \in 1..(2 * g.width) |->
     Landmark(Pos((k - 1) \div 2, IF k % 2 = 1 THEN 0 ELSE g.height - 1), "boundary")]
  \o
  [k \in 1..(2 * (g.height - 2)) |->
     Landmark(Pos(IF k % 2 = 1 THEN 0 ELSE g.width - 1, 1 + (k - 1) \div 2), "boundary")]

\* new Job(type, workplace): the workplace is the landmark's index.
Job(type, workplace) == [type |-> type, workplace |-> workplace]

\* Citizen.assignJob
assignJob(c, job) == [c EXCEPT !.job = Some(job)]

\* One block of World.createInitialJobs: the first `count` unemployed citizens
\* get the job at the places of the kind, one job_assigned event each.
assignJobs(w, lms, type, kind, count) ==
  LET places == SelectIdx(lms, LAMBDA l : l.type = kind)
      unemployedCitizens == SelectIdx(w.cs, LAMBDA c : ~isEmployed(c))
      n == Min(count, Len(unemployedCitizens))
      F[i \in 0..n] ==
        IF i = 0 THEN w
        ELSE [cs |-> [F[i - 1].cs EXCEPT ![unemployedCitizens[i]] =
                        assignJob(@, Job(type, places[((i - 1) % Len(places)) + 1]))],
              ev |-> Append(F[i - 1].ev, Event("job_assigned", 0))]
  IN IF places = <<>> THEN w ELSE F[n]

\* World.createInitialJobs: two police officers, two farmers, one merchant.
createInitialJobs(cs, lms) ==
  LET police == assignJobs([cs |-> cs, ev |-> <<>>], lms, "POLICE_OFFICER", "police_station", 2)
      farmers == assignJobs(police, lms, "FARMER", "farm", 2)
  IN assignJobs(farmers, lms, "MERCHANT", "market", 1)

\* A world between two ticks: the fields of World and of its three systems.
WorldState(g, tick, cs, rs, lms, govs, cr, counter, offs, ev, builds, births, ticks) ==
  [grid |-> g, tickCount |-> tick, citizens |-> cs, resources |-> rs,
   landmarks |-> lms, governments |-> govs, crimes |-> cr, crimeIdCounter |-> counter,
   officers |-> offs, events |-> ev, totalBuildings |-> builds,
   totalBirths |-> births, horizon |-> tick + ticks, faults |-> {}, session |-> Null]

\* new World(config) and initialize() for a 5 x 5 grid with no initial landmark
\* but the police station and the farm, one resource and one citizen, who
\* becomes a police officer.
StartGrid == [width |-> 5, height |-> 5]

StartWorld ==
  LET lms == createBoundaries(StartGrid)
             \o <<Landmark(Pos(1, 1), "police_station"), Landmark(Pos(3, 3), "farm")>>
      jobs == createInitialJobs(<<NewCitizen(Pos(2, 2))>>, lms)
  IN WorldState(StartGrid, 0, jobs.cs, <<Resource(Pos(3, 1), "R")>>, lms, <<>>, <<>>, 0,
                <<>>, jobs.ev, 0, 0, MaxTicks - 1)

\* ------------------------------------------------------- later worlds
\* Breeding needs age 100, governments need a town hall and five citizens
\* around it, arrests need a citizen whose credit fell below 200: none of it
\* happens within a few ticks of initialize().  The runs therefore also start
\* from worlds the program is in after many ticks; each one comes with the
\* history that leads to it.
\*
\* In the town and in the governed world every interior cell carries a
\* landmark or a citizen.  That is where a world ends up: canBuildAt is the
\* only test between a planned building and its landmark, so every citizen
\* with energy >= 40 leaves landmarks behind.  With no free interior cell
\* getRandomEmptyPosition returns null and no resource respawns any more.

\* A citizen made by initialize() that has lived t >= 300 ticks off the roads
\* without a reward: the needs decayed from 50/80/50 and the stamina from 80;
\* needs.energy was restored to 100 in the first night (ticks 1..300, while
\* hunger >= 20 let the routine run) and decays since; the credit grew by 1
\* every 100 ticks (satisfaction 70 > 60) and, once above 800, brought +1
\* satisfaction every 100 ticks.
Veteran(p, t) ==
  [NewCitizen(p) EXCEPT
     !.age = t,
     !.hunger = Max(0, Pts(50) - 20 * t),
     !.nenergy = Max(0, Pts(100) - 10 * (t - 300)),
     !.social = Max(0, Pts(50) - 16 * t),
     !.energy = Max(0, Pts(80) - 6 * t),
     !.socialCredit = Pts(500) + Pts(t \div 100),
     !.satisfaction = Min(Pts(100), Pts(70) + Pts(Max(0, t \div 100 - 300))),
     !.state = IF Pts(100) - 10 * (t - 300) < Pts(20) THEN "seeking_shelter"
               ELSE "seeking_resource",
     !.routine = "sleeping"]

\* The officer record identifyOfficers made in the first police sweep.
Officer(id, station) ==
  [citizen |-> id, patrolRoute |-> generatePatrolRoute(Some(station)),
   targetCriminal |-> 0, stationBase |-> Some(station)]

\* A police officer on patrol, stuck where the way to the patrol point
\* leaves the grid: patrol() made the target and the state.
OnPatrol(c, station, lms) ==
  [assignJob(c, Job("POLICE_OFFICER", FirstLandmarkAt(lms, station))) EXCEPT
     !.target = Some(patrolPoints(station)[1]), !.state = "working"]

\* The 5 x 5 town: police station and farm from initialize(), walls on the
\* other interior cells.
TownGrid == [width |-> 5, height |-> 5]

TownLandmarks ==
  createBoundaries(TownGrid)
  \o <<Landmark(Pos(1, 1), "police_station"), Landmark(Pos(3, 3), "farm")>>
  \o [k \in 1..7 |->
        Landmark(<<Pos(2, 1), Pos(3, 1), Pos(1, 2), Pos(2, 2), Pos(3, 2),
                   Pos(1, 3), Pos(2, 3)>>[k], "wall")]

\* The elders' world at tick 2099.  Citizens 1 and 2 are the police officers,
\* 3 and 4 the farmers.  Officer 1 and farmer 3 chose each other as partners
\* before tick 666, when both had energy >= 60, and never met while one of them
\* was seeking a mate.  Officer 1 has decayed to energy 17.03.  Farmer 3 has
\* built five walls since (+10 energy each, the resources W, A, L respawned
\* and collected again each time), holds W, A, L for the sixth, and was fed.
ElderWorld ==
  LET t == 2099
      station == Pos(1, 1)
      o1 == [OnPatrol(Veteran(Pos(3, 1), t), station, TownLandmarks) EXCEPT
               !.breedingPartner = 3]
      o2 == OnPatrol(Veteran(Pos(3, 1), t), station, TownLandmarks)
      farm == FirstLandmarkAt(TownLandmarks, Pos(3, 3))
      f1 == [assignJob(Veteran(Pos(3, 3), t), Job("FARMER", farm)) EXCEPT
               !.energy = Pts(80) - 6 * t + 5 * Pts(10),
               !.hunger = Pts(45), !.nenergy = Pts(60),
               !.inventory = <<"W", "A", "L">>,
               !.breedingPartner = 1,
               !.state = "working", !.routine = "working"]
      f2 == assignJob(Veteran(Pos(3, 3), t), Job("FARMER", farm))
      rs == <<[Resource(Pos(2, 2), "W") EXCEPT !.collected = TRUE],
              [Resource(Pos(2, 2), "A") EXCEPT !.collected = TRUE],
              [Resource(Pos(2, 2), "L") EXCEPT !.collected = TRUE]>>
  IN WorldState(TownGrid, t, <<o1, o2, f1, f2>>, rs, TownLandmarks, <<>>, <<>>, 0,
                <<Officer(1, station), Officer(2, station)>>, <<>>, 7, 0, MaxTicks)

\* The police world at tick 2108, a 13 x 4 grid with the station at (6,1), the
\* farm at (9,2) and one resource R at (2,2) that nobody has stepped on.
\* Citizen 5 stole at the last crime checks up to 2100 (seven thefts: credit
\* 521 - 7 * 50 = 171)
\* standing at (3,1).  In the sweep of tick 2100 both officers, stuck at (11,1)
\* on their patrol, were 8 away and took it as their target; since tick 2101
\* they walk left one cell per tick while citizen 5 fled to (1,1) and is
\* blocked by the boundary: after tick 2108 the officers are at (4,1).
\* Citizen 6 stole at the checks 1880..1940, was arrested at tick 1960 with
\* credit 170 for 150 ticks (the credit rose by 0.5 at the ticks 2000 and 2100
\* of its detention), and has been fed: hungry but not starving, it walks to R
\* with a full inventory.
PoliceGrid == [width |-> 13, height |-> 4]

PoliceLandmarks ==
  createBoundaries(PoliceGrid)
  \o <<Landmark(Pos(6, 1), "police_station"), Landmark(Pos(9, 2), "farm")>>

Theft(id, perpetrator, location, tick, resolved) ==
  [id |-> id, type |-> "THEFT", perpetrator |-> perpetrator, location |-> location,
   tick |-> tick, detected |-> TRUE, resolved |-> resolved]

PoliceWorldAfter(thefts) ==
  LET t == 2108
      station == Pos(6, 1)
      pursuing(c) ==
        [assignJob(c, Job("POLICE_OFFICER", FirstLandmarkAt(PoliceLandmarks, station)))
           EXCEPT !.target = Some(Pos(1, 1))]
      farm == FirstLandmarkAt(PoliceLandmarks, Pos(9, 2))
      farmer == assignJob(Veteran(Pos(9, 2), t), Job("FARMER", farm))
      thief == [Veteran(Pos(1, 1), t) EXCEPT
                  !.socialCredit = Pts(521) - thefts * Pts(50), !.isCriminal = TRUE,
                  !.state = "fleeing", !.target = Some(Pos(0 - 4, 1))]
      inmate == [Veteran(Pos(5, 2), t) EXCEPT
                   !.socialCredit = Pts(520) - 7 * Pts(50) - Pts(arrestPenalty) + 2 * 100,
                   !.isCriminal = TRUE, !.isDetained = TRUE,
                   !.detentionEndTime = 1960 + 150,
                   !.hunger = Pts(25), !.nenergy = Pts(50),
                   !.inventory = [k \in 1..10 |-> "R"],
                   !.state = "seeking_resource", !.target = Some(Pos(2, 2))]
      chasing(id) == [Officer(id, station) EXCEPT !.targetCriminal = 5]
      cr == [k \in 1..7 |-> Theft(k - 1, 6, Pos(4, 1), 1870 + 10 * k, TRUE)]
            \o [k \in 1..thefts |->
                  Theft(k + 6, 5, Pos(3, 1), 2100 - 10 * (thefts - k), FALSE)]
  IN WorldState(PoliceGrid, t,
                <<pursuing(Veteran(Pos(4, 1), t)), pursuing(Veteran(Pos(4, 1), t)),
                  farmer, farmer, thief, inmate>>,
                <<Resource(Pos(2, 2), "R")>>, PoliceLandmarks, <<>>, cr, 7 + thefts,
                <<chasing(1), chasing(2)>>, <<>>, 0, 0, MaxTicks + 1)

\* Citizen 5 has stolen seven times (credit 171).
PoliceWorld == PoliceWorldAfter(7)

\* The police world where citizen 5 has stolen five times (credit 271) or nine
\* times (credit 71).
OffenderWorlds == {PoliceWorldAfter(5), PoliceWorldAfter(9)}

\* The governed world at tick 33199, a 10 x 3 grid: one row of interior cells
\* with, from x = 1, wall, police station, farm, wall, road, town hall, the
\* cell where citizen 13 is one step from completing a second town hall, wall.
\* Government 1 was formed at the first town hall at tick 20000 from the
\* citizens 3..7; they paid their last tax at tick 33100.  Citizen 4 stands on
\* the road and was served every 50 ticks, citizen 5 holds ten tokens, the
\* oldest a W (both resources were collected before the walls were built),
\* citizen 6 was fed and slept, citizen 7 strayed to (8,1).  The officers 1, 2
\* are stuck at (8,1) on the way to their patrol point (12,1).  The citizens
\* 8..12 stand at (1,1), 5 away from the first town hall and 6 from the
\* second; 14..16 stand at (8,1).  Nobody near the first town hall was
\* recruited at tick 33000.  All have been model citizens since tick 30100.
GovGrid == [width |-> 10, height |-> 3]

GovLandmarks ==
  createBoundaries(GovGrid)
  \o <<Landmark(Pos(1, 1), "wall"), Landmark(Pos(2, 1), "police_station"),
       Landmark(Pos(3, 1), "farm"), Landmark(Pos(4, 1), "wall"),
       Landmark(Pos(5, 1), "horizontal_road"), Landmark(Pos(6, 1), "town_hall"),
       Landmark(Pos(8, 1), "wall")>>

GovWorld ==
  LET t == 33199
      station == Pos(2, 1)
      townHall == FirstLandmarkAt(GovLandmarks, Pos(6, 1))
      farm == FirstLandmarkAt(GovLandmarks, Pos(3, 1))
      member(p, role) ==
        [Veteran(p, t) EXCEPT !.governmentId = 1, !.governmentRole = role,
                              !.loyaltyToGov = Pts(60), !.lastTaxTime = 33100]
      o1 == [OnPatrol(Veteran(Pos(8, 1), t), station, GovLandmarks) EXCEPT
               !.inventory = [k \in 1..7 |-> "R"]]
      o2 == OnPatrol(Veteran(Pos(8, 1), t), station, GovLandmarks)
      leader == assignJob(member(Pos(6, 1), "leader"), Job("FARMER", farm))
      served == [assignJob(member(Pos(5, 1), "official"), Job("FARMER", farm)) EXCEPT
                   !.loyaltyToGov = Pts(100)]
      payer == [member(Pos(6, 1), "official") EXCEPT
                  !.inventory = <<"W">> \o [k \in 1..9 |-> "R"], !.taxesPaid = 4]
      rested == [member(Pos(6, 1), "citizen") EXCEPT
                   !.hunger = Pts(25), !.nenergy = Pts(100) - 5,
                   !.state = "seeking_resource"]
      stray == member(Pos(8, 1), "citizen")
      builder == [Veteran(Pos(7, 1), t) EXCEPT
                    !.energy = Pts(45), !.isBuilding = TRUE,
                    !.buildingTarget = Some("TOWN_HALL"),
                    !.buildingProgress = BUILDING_RECIPES["TOWN_HALL"].buildTime - 1,
                    !.state = "building"]
      gov == [NewGovernment("council", 20000) EXCEPT
                !.leader = 3, !.officials = <<3, 4, 5>>, !.citizens = <<3, 4, 5, 6, 7>>,
                !.treasury = <<[resource |-> "R", amount |-> 4]>>,
                !.governmentBuildings = <<townHall>>, !.satisfaction = 0]
      cs == <<o1, o2, leader, served, payer, rested, stray>>
            \o [k \in 1..5 |-> Veteran(Pos(1, 1), t)]
            \o <<builder>>
            \o [k \in 1..3 |-> Veteran(Pos(8, 1), t)]
      rs == <<[Resource(Pos(4, 1), "R") EXCEPT !.collected = TRUE],
              [Resource(Pos(4, 1), "W") EXCEPT !.collected = TRUE]>>
  IN WorldState(GovGrid, t, cs, rs,
                GovLandmarks, <<gov>>, <<>>, 0,
                <<Officer(1, station), Officer(2, station)>>, <<>>, 12, 0, MaxTicks)

\* The start grid at tick 2099, with the boundaries, the station and the farm:
\* citizens 1 and 2 stand on the free cell (2,1) and complete a wall and a
\* home with their next update, citizen 3 completes a wall on the farm's cell.
BuildersWorld ==
  LET t == 2099
      lms == createBoundaries(StartGrid)
             \o <<Landmark(Pos(1, 1), "police_station"), Landmark(Pos(3, 3), "farm")>>
      builder(p, what) ==
        [Veteran(p, t) EXCEPT
           !.isBuilding = TRUE, !.buildingTarget = Some(what),
           !.buildingProgress = BUILDING_RECIPES[what].buildTime - 1,
           !.state = "building"]
      cs == <<builder(Pos(2, 1), "WALL"), builder(Pos(2, 1), "HOME"),
              builder(Pos(3, 3), "WALL")>>
  IN WorldState(StartGrid, t, cs, <<>>, lms, <<>>, <<>>, 0, <<>>, <<>>, 0, 0, 1)

\* The start grid at tick 2099 with one resource R that respawned at (2,2):
\* the citizens 1 and 2, fed and rested, stand next to it at (2,1) and (1,2)
\* and are both on their way to it.
SharedCellWorld ==
  LET t == 2099
      lms == createBoundaries(StartGrid)
             \o <<Landmark(Pos(1, 1), "police_station"), Landmark(Pos(3, 3), "farm")>>
      seeker(p) ==
        [Veteran(p, t) EXCEPT
           !.hunger = Pts(25), !.nenergy = Pts(100) - 5,
           !.state = "seeking_resource", !.target = Some(Pos(2, 2))]
  IN WorldState(StartGrid, t, <<seeker(Pos(2, 1)), seeker(Pos(1, 2))>>,
                <<Resource(Pos(2, 2), "R")>>, lms, <<>>, <<>>, 0, <<>>, <<>>, 0, 0, 1)

\* A world in which the statements f of tick() throw, run for ticks ticks.
Throwing(w, f, ticks) == [w EXCEPT !.faults = f, !.horizon = w.tickCount + ticks]

\* The governed world with a citizen 6 whose update() throws and a citizen 13
\* whose collectResource() throws.
BrokenUpdateWorld ==
  Throwing(GovWorld, {<<"update", 6>>, <<"collect", 13>>}, MaxTicks - 1)

\* The governed world where placing citizen 13's building throws, and so
\* does checkGovernmentFormation().
BrokenBuildingWorld ==
  Throwing(GovWorld, {<<"building", 13>>, <<"formation">>}, MaxTicks - 1)

\* The elders' world where the breeding block of farmer 3 throws.
BrokenBreedingWorld ==
  Throwing(ElderWorld, {<<"breeding", 3>>}, MaxTicks - 1)

\* The governed world without the citizens 15 and 16: four unaffiliated
\* citizens stand within 5 of the town hall citizen 13 completes.
SparseGovWorld ==
  [GovWorld EXCEPT !.citizens = SubSeq(GovWorld.citizens, 1, 14),
                   !.horizon = GovWorld.tickCount + MaxTicks - 1]

\* The police world where processGovernments(), routineSystem.update() and
\* crimeSystem.update() throw.
BrokenPassesWorld ==
  Throwing(PoliceWorld, {<<"processing">>, <<"routine">>, <<"crime">>}, MaxTicks + 1)

\* The police world where policeSystem.update() throws.
BrokenPoliceWorld == Throwing(PoliceWorld, {<<"police">>}, MaxTicks + 1)

\* The police world with one of the core data structures overwritten by
\* something tick() does not accept.
CorruptWorlds ==
  {Throwing(PoliceWorld, {<<"corrupt", d>>}, MaxTicks) : d \in coreStructures}

\* The governed world after tick 33200 with the citizens 1..7 only and the
\* cell (7,1) free: a resource W respawned there, and citizen 5, fed and slept
\* but hungry again, walked to it with ten tokens R, so that collectResource
\* left the W where it is.  A citizen arriving with hunger 0 has hunger 20
\* after the tick of its arrival and 39.9 after one more tick on the cell (each
\* tick it reaches its target, the cell it stands on).  The tax sweep of tick
\* 33200 took the oldest R of citizen 5; nobody stole the W at the crime check
\* of that tick.  hunger is citizen 5's hunger after tick 33200.
TaxedWorld(hunger) ==
  LET t == 33200
      station == Pos(2, 1)
      townHall == FirstLandmarkAt(GovLandmarks, Pos(6, 1))
      farm == FirstLandmarkAt(GovLandmarks, Pos(3, 1))
      member(p, role) ==
        [Veteran(p, t) EXCEPT !.governmentId = 1, !.governmentRole = role,
                              !.loyaltyToGov = Pts(60), !.lastTaxTime = t]
      o1 == OnPatrol(Veteran(Pos(8, 1), t), station, GovLandmarks)
      leader == assignJob(member(Pos(6, 1), "leader"), Job("FARMER", farm))
      served == [assignJob(member(Pos(5, 1), "official"), Job("FARMER", farm)) EXCEPT
                   !.loyaltyToGov = Pts(100)]
      payer == [member(Pos(7, 1), "official") EXCEPT
                  !.inventory = [k \in 1..9 |-> "R"], !.taxesPaid = 5,
                  !.hunger = hunger, !.nenergy = Pts(100),
                  !.state = "seeking_resource"]
      gov == [NewGovernment("council", 20000) EXCEPT
                !.leader = 3, !.officials = <<3, 4, 5>>, !.citizens = <<3, 4, 5, 6, 7>>,
                !.treasury = <<[resource |-> "R", amount |-> 5]>>,
                !.governmentBuildings = <<townHall>>, !.satisfaction = 0]
      cs == <<o1, o1, leader, served, payer, member(Pos(6, 1), "citizen"),
              member(Pos(8, 1), "citizen")>>
      rs == <<[Resource(Pos(4, 1), "R") EXCEPT !.collected = TRUE],
              Resource(Pos(7, 1), "W")>>
  IN WorldState(GovGrid, t, cs, rs, GovLandmarks, <<gov>>, <<>>, 0,
                <<Officer(1, station), Officer(2, station)>>, <<>>, 11, 0, MaxTicks - 1)

\* Citizen 5 reached the W in tick 33200 (hunger 20), or one tick before
\* (hunger 39.9).
TaxedWorlds == {TaxedWorld(Pts(20)), TaxedWorld(Pts(40) - 20)}

\* The police world with a seventh citizen that starved through the morning
\* with ten tokens R: at tick 2009 it decided with needs.energy 20.0, stepped
\* on the R at (2,2), its target, and was fed (hunger 20) without room for the
\* token.  Tired ever since, with no home to go to, it stands there; 99 ticks
\* of decay have left hunger 10.1 and needs.energy 15.05.
ShelterWorld ==
  LET tired == [Veteran(Pos(2, 2), PoliceWorld.tickCount) EXCEPT
                  !.hunger = Pts(10) + 20, !.nenergy = Pts(15) + 10,
                  !.inventory = [k \in 1..10 |-> "R"],
                  !.state = "seeking_shelter", !.routine = "waking_up"]
  IN [PoliceWorld EXCEPT !.citizens = Append(@, tired),
                         !.horizon = PoliceWorld.tickCount + MaxTicks - 1]

\* The police world where citizen 5 stole eight times, the first time at tick
\* 1500 and never caught since, and where the first of citizen 6's seven
\* thefts dates from tick 1610: resolved by the arrest of tick 1960, it is 498
\* ticks old.
OldCrimesWorld ==
  [PoliceWorldAfter(8) EXCEPT
     !.crimes = <<Theft(0, 5, Pos(3, 1), 1500, FALSE), Theft(1, 6, Pos(4, 1), 1610, TRUE)>>
                \o [k \in 1..6 |-> Theft(k + 1, 6, Pos(4, 1), 1880 + 10 * k, TRUE)]
                \o [k \in 1..7 |-> Theft(k + 7, 5, Pos(3, 1), 2030 + 10 * k, FALSE)]]

\* A 5 x 5 town without police at tick 2109: nobody was given a job by
\* initialize(), a town hall was built at (1,1) and walls on the other
\* interior cells, and with three citizens no government was formed.  Citizen
\* 2 stole ten times at the checks 1010..1100 (credit 510 - 500 = 10), citizen
\* 1 seven times at 2010..2070 and trespassed at 2080 (credit 520 - 350 - 20 =
\* 150), citizen 3 like citizen 1; nobody arrests them.  Citizens 1 and 2
\* stand on the town hall, citizen 3 next to it.
LawlessLandmarks ==
  createBoundaries(TownGrid)
  \o <<Landmark(Pos(1, 1), "town_hall")>>
  \o [k \in 1..8 |->
        Landmark(<<Pos(2, 1), Pos(3, 1), Pos(1, 2), Pos(2, 2), Pos(3, 2),
                   Pos(1, 3), Pos(2, 3), Pos(3, 3)>>[k], "wall")]

Crime(id, type, perpetrator, location, tick) ==
  [id |-> id, type |-> type, perpetrator |-> perpetrator, location |-> location,
   tick |-> tick, detected |-> FALSE, resolved |-> FALSE]

LawlessWorld ==
  LET t == 2109
      offender(p, credit) ==
        [Veteran(p, t) EXCEPT !.socialCredit = credit, !.isCriminal = TRUE]
      cs == <<offender(Pos(1, 1), Pts(150)), offender(Pos(1, 1), Pts(10)),
              offender(Pos(2, 1), Pts(150))>>
      rs == <<[Resource(Pos(2, 2), "R") EXCEPT !.collected = TRUE]>>
      cr == [k \in 1..10 |-> Crime(k - 1, "THEFT", 2, Pos(2, 1), 1000 + 10 * k)]
            \o [k \in 1..14 |->
                  Crime(9 + k, "THEFT", IF k % 2 = 1 THEN 1 ELSE 3, Pos(2, 1),
                        2000 + 10 * ((k + 1) \div 2))]
            \o <<Crime(24, "TRESPASSING", 1, Pos(1, 1), 2080),
                 Crime(25, "TRESPASSING", 3, Pos(1, 1), 2080)>>
  IN WorldState(TownGrid, t, cs, rs, LawlessLandmarks, <<>>, cr, 26, <<>>, <<>>,
                9, 0, MaxTicks - 1)

\* A world without police or government at tick t: citizen 1 is hungry and
\* rested, citizen 2 fed and tired, citizen 3 fed and rested; all three were
\* last given the routine last.
NeedyWorld(t, last) ==
  LET needy(p, hunger, nenergy) ==
        [Veteran(p, t) EXCEPT !.hunger = hunger, !.nenergy = nenergy,
                              !.state = "wandering", !.routine = last]
      cs == <<needy(Pos(1, 1), Pts(19), Pts(60)), needy(Pos(2, 1), Pts(60), Pts(19)),
              needy(Pos(3, 1), Pts(60), Pts(60))>>
      rs == <<[Resource(Pos(2, 2), "R") EXCEPT !.collected = TRUE]>>
  IN WorldState(TownGrid, t, cs, rs, LawlessLandmarks, <<>>, <<>>, 0, <<>>, <<>>,
                9, 0, MaxTicks - 1)

\* Needy worlds before a tick of the morning (hour 7), of working hours (hour
\* 12), of the evening (hour 18) and of the night (hour 22).
NeedyWorlds ==
  {NeedyWorld(3300, "sleeping"), NeedyWorld(3600, "waking_up"),
   NeedyWorld(3960, "waking_up"), NeedyWorld(4200, "evening_activities")}

\* The needy world before tick 60100, a tick of the credit update: after 600
\* updates the three citizens, never criminals, have the full credit.
FullCreditWorld ==
  LET w == NeedyWorld(60099, "waking_up")
  IN [w EXCEPT !.citizens = [k \in 1..Len(w.citizens) |->
                               [w.citizens[k] EXCEPT !.socialCredit = Pts(1000)]]]

\* A world one birth below the population cap at tick 2099: the citizens 1, 2
\* and 3, 4 are two fit pairs that chose each other and stand side by side,
\* the others are hungry elders.  The world is followed for one tick.
CrowdedWorld ==
  LET t == 2099
      fit(p, partner) ==
        [Veteran(p, t) EXCEPT !.energy = Pts(70), !.hunger = Pts(45),
                              !.nenergy = Pts(60), !.breedingPartner = partner,
                              !.state = "wandering", !.routine = "waking_up"]
      cs == <<fit(Pos(3, 1), 2), fit(Pos(3, 2), 1), fit(Pos(8, 1), 4), fit(Pos(8, 2), 3)>>
            \o [k \in 1..maxPopulation - 5 |-> Veteran(Pos(11, 1), t)]
      rs == <<[Resource(Pos(2, 2), "R") EXCEPT !.collected = TRUE]>>
  IN WorldState(PoliceGrid, t, cs, rs, PoliceLandmarks, <<>>, <<>>, 0, <<>>, <<>>,
                2, 0, 1)

\* A world owned by an API session with the given cached state: the lock is
\* free between requests.
InSession(w, cached) ==
  [w EXCEPT !.session = [NewSession EXCEPT !.lastGoodState = cached]]

\* The state the tick request that produced the world w cached.
lastGoodStateOf(w) ==
  Some(worldStateOf(w.tickCount, w.citizens, w.resources, w.landmarks,
                    w.totalBuildings, w.totalBirths, <<>>))

\* The session of the taxed world right after the request of tick 33200,
\* which sent and cached the state with the tax event of that tick; the
\* resources are no array any more.
TaxedSession ==
  LET w == TaxedWorld(Pts(20))
      sent == Some(worldStateOf(w.tickCount, w.citizens, w.resources, w.landmarks,
                                w.totalBuildings, w.totalBirths,
                                <<Event("tax", w.tickCount)>>))
  IN [Throwing(w, {<<"corrupt", "resources">>}, MaxTicks) EXCEPT
        !.session = [lock |-> FALSE, lastGoodState |-> sent,
                     reply |-> Reply(200, "", sent)]]

\* Sessions: a new one on the initial world; a new one and one with a cached
\* state on worlds whose citizens, resources or landmarks are no array (a
\* broken grid may already stop the request before world.tick()).
SessionWorlds ==
  {InSession(StartWorld, Null)}
  \cup {InSession(Throwing(StartWorld, {<<"corrupt", d>>}, MaxTicks), Null) :
          d \in coreStructures \ {"grid"}}
  \cup {InSession(Throwing(PoliceWorld, {<<"corrupt", d>>}, MaxTicks), lastGoodStateOf(PoliceWorld)) :
          d \in coreStructures \ {"grid"}}
  \cup {TaxedSession}

Worlds ==
  {StartWorld, ElderWorld, PoliceWorld, GovWorld, SparseGovWorld,
   BrokenUpdateWorld, BrokenBuildingWorld, BrokenBreedingWorld,
   BrokenPassesWorld, BrokenPoliceWorld} \cup CorruptWorlds \cup OffenderWorlds
  \cup TaxedWorlds \cup {ShelterWorld, OldCrimesWorld, LawlessWorld} \cup SessionWorlds
  \cup NeedyWorlds \cup {FullCreditWorld, CrowdedWorld, BuildersWorld, SharedCellWorld}

\* The program with the world w, at the point at of a tick.
StartsAs(w, at) ==
    /\ grid = w.grid
    /\ tickCount = w.tickCount
    /\ citizens = w.citizens
    /\ resources = w.resources
    /\ landmarks = w.landmarks
    /\ governments = w.governments
    /\ crimes = w.crimes
    /\ crimeIdCounter = w.crimeIdCounter
    /\ officers = w.officers
    /\ events = w.events
    /\ totalBuildings = w.totalBuildings
    /\ totalBirths = w.totalBirths
    /\ horizon = w.horizon
    /\ faults = w.faults
    /\ session = w.session
    /\ currentTime = Null
    /\ caught = {}
    /\ pc = at
    /\ ci = 1
    /\ lastStep = NoStep
    /\ policeLog = <<>>

Init ==
  /\ \E w \in Worlds : StartsAs(w, "idle")
  /\ store = StoreAt(0, 0)
  /\ client = PageLoaded(TRUE)

Spec == Init /\ [][Next]_vars

\* The routine pass on its own, for every tick count of the first days: the
\* needy world inside the tick t, before its routine pass.
ClockInit ==
  /\ \E t \in 1..MaxClockTick : StartsAs(NeedyWorld(t, "sleeping"), "routine")
  /\ store = StoreAt(0, 0)
  /\ client = PageLoaded(TRUE)

ClockSpec == ClockInit /\ [][RoutineUpdate]_vars

\* The variables of the world and its tick.
worldVars == <<grid, tickCount, citizens, resources, landmarks, governments, crimes,
               crimeIdCounter, officers, events, totalBuildings, totalBirths, pc, ci,
               lastStep, policeLog, horizon, faults, caught, session, currentTime>>

\* A create-world request.
CreateWorld ==
  /\ store.requests < MaxRequests
  /\ \E built \in BOOLEAN :
       store' = [createWorld(store, built) EXCEPT !.requests = @ + 1]
  /\ UNCHANGED <<worldVars, client>>

\* A tick request for the oldest or the newest stored session, as far as the
\* session store goes.
TickRequest ==
  /\ store.requests < MaxRequests
  /\ \E k \in {1, Len(store.sessions)} \cap (1..Len(store.sessions)) :
       store' = [touchSession(store, k) EXCEPT !.requests = @ + 1]
  /\ UNCHANGED <<worldVars, client>>

\* A minute passes without a request.
MinutePasses ==
  /\ store.waited < MaxMinutes
  /\ store' = [store EXCEPT !.now = @ + 1, !.waited = @ + 1]
  /\ UNCHANGED <<worldVars, client>>

StoreNext == CreateWorld \/ TickRequest \/ MinutePasses

\* The module right after its first minute or half an hour later, empty or
\* one session below the cap.
StoreInit ==
  /\ StartsAs(StartWorld, "idle")
  /\ store \in {StoreAt(now, n) : now \in {0, SESSION_TTL_MIN - 1},
                                  n \in {0, MAX_SESSIONS - 1}}
  /\ client = PageLoaded(TRUE)

StoreSpec == StoreInit /\ [][StoreNext]_vars


\* The user's action act on the page.
UserActs(after) ==
  /\ client.actions < MaxActions
  /\ client' = [after EXCEPT !.actions = @ + 1]
  /\ UNCHANGED <<worldVars, store>>

\* A click on the start button.
ClickStart == ~client.startDisabled /\ UserActs(start(client))

\* A click on the pause button.
ClickPause == ~client.pauseDisabled /\ UserActs(pause(client))

\* A click on the reset button.
ClickReset == UserActs(reset(client))

\* The slider is moved to another speed.
ChangeSpeed == \E v \in Speeds \ {client.speed} : UserActs(setSpeed(client, v))

\* The create request of a waiting start() is answered.
CreateResponds ==
  /\ client.creating > 0
  /\ \E ok \in BOOLEAN : client' = startResumes(client, ok)
  /\ UNCHANGED <<worldVars, store>>

\* An interval timer that is set fires: tick() sends its request and waits.
TimerFires ==
  /\ client.timers # {}
  /\ client.fired < MaxFires
  /\ client' = [client EXCEPT !.ticking = @ + 1, !.fired = @ + 1]
  /\ UNCHANGED <<worldVars, store>>

\* The tick request of a waiting tick() is answered.
TickResponds ==
  /\ client.ticking > 0
  /\ \E answer \in TickAnswers : client' = tickResumes(client, answer)
  /\ UNCHANGED <<worldVars, store>>

ClientNext ==
  \/ ClickStart
  \/ ClickPause
  \/ ClickReset
  \/ ChangeSpeed
  \/ CreateResponds
  \/ TimerFires
  \/ TickResponds

ClientInit ==
  /\ StartsAs(StartWorld, "idle")
  /\ store = StoreAt(0, 0)
  /\ \E pauseDisabled \in BOOLEAN : client = PageLoaded(pauseDisabled)

ClientSpec == ClientInit /\ [][ClientNext]_vars

\* ------------------------------------------------------------- claims

\* C1: a building landmark is added at a citizen's position only after the
\* citizen's recipe was consumed (it was building) and its buildingProgress
\* reached the recipe's buildTime in this update; no landmark is placed in a
\* loop body that leaves the citizen with a plan it is still collecting for.
C1_LandmarkOnlyAfterBuild ==
  lastStep.placed =>
    LET c == lastStep.pre[lastStep.i]
    IN /\ c.isBuilding
       /\ c.buildingTarget # Null
       /\ c.buildingProgress + 1 >= BUILDING_RECIPES[c.buildingTarget[1]].buildTime

\* The citizens' state the breeding check of the last loop body saw.
BreedingPair(j) ==
  LET i == lastStep.i
      m == lastStep.mid
  IN /\ j \in 1..Len(m) /\ j # i
     /\ m[i].breedingPartner = j
     /\ m[j].breedingPartner = i
     /\ isNearby(m[i], m[j])

\* Both parents after a birth: lastBreedTime is the tick, the partners are cleared.
ParentsSettled ==
  LET i == lastStep.i
      j == lastStep.mid[i].breedingPartner
  IN /\ lastStep.post[i].lastBreedTime = lastStep.tick
     /\ lastStep.post[j].lastBreedTime = lastStep.tick
     /\ lastStep.post[i].breedingPartner = 0
     /\ lastStep.post[j].breedingPartner = 0

C3_EnergyInRange ==
  pc = "idle" =>
    \A k \in 1..Len(citizens) : citizens[k].energy >= 0 /\ citizens[k].energy <= Pts(100)

C5_Step ==
  /\ \A k \in 1..Len(citizens') : Len(citizens'[k].inventory) <= 10
  /\ pc = "citizens" /\ lastStep'.i = ci /\ lastStep'.tick = tickCount =>
       LET before == Len(lastStep'.pre[ci].inventory)
           after == Len(lastStep'.post[ci].inventory)
       IN after > before => before < 10
  /\ pc = "processing" =>
       \A k \in 1..Len(citizens) :
         LET taken == Len(citizens[k].inventory) - Len(citizens'[k].inventory)
         IN /\ taken >= 0 /\ taken <= Len(citizens[k].inventory)
            /\ citizens'[k].taxesPaid = citizens[k].taxesPaid + taken

ClaimedBy(l) ==
  {n \in 1..Len(governments) :
     \E b \in 1..Len(governments[n].governmentBuildings) :
        landmarks[governments[n].governmentBuildings[b]].position = landmarks[l].position}

\* C6: at every point of the run each town hall is claimed by at most one
\* government, and governments are never removed, whoever gathers near it.
C6_Step ==
  /\ \A l \in 1..Len(landmarks') :
       landmarks'[l].type = "town_hall" =>
         Cardinality({n \in 1..Len(governments') :
            \E b \in 1..Len(governments'[n].governmentBuildings) :
               landmarks'[governments'[n].governmentBuildings[b]].position
                 = landmarks'[l].position}) <= 1
  /\ Len(governments') >= Len(governments)
  /\ \A n \in 1..Len(governments) :
       governments'[n].governmentBuildings = governments[n].governmentBuildings

C6_TownHallClaimedOnce == [][C6_Step]_vars

\* The formation sweep has run with five unaffiliated citizens within 5 of a
\* town hall that has its government.
C6_Witness ==
  /\ pc = "processing"
  /\ \E l \in 1..Len(landmarks) :
       /\ landmarks[l].type = "town_hall"
       /\ ClaimedBy(l) # {}
       /\ Len(unaffiliatedNear(citizens, landmarks[l].position, 5)) >= 5

C8_ArrestIffInRange ==
  \A k \in 1..Len(policeLog) :
    policeLog[k].target # 0 => (policeLog[k].result = "arrested" <=> policeLog[k].inRange)

\* C8: in the sweep, an officer's turn ends in an arrest if and only if the
\* officer has a target, the target is not already detained when the turn
\* begins, and it is within arrestRange; the arrested citizen is detained.
C8_ArrestIffInRangeAndFree ==
  \A k \in 1..Len(policeLog) :
    /\ policeLog[k].result = "arrested" <=>
         /\ policeLog[k].target # 0
         /\ policeLog[k].inRange
         /\ ~policeLog[k].targetDetained
    /\ pc = "release" /\ policeLog[k].result = "arrested" =>
         citizens[policeLog[k].target].isDetained

\* One officer has arrested the target, a second one in range of the same
\* target found it detained, in a run where an earlier turn was out of range.
C8_Witness ==
  /\ pc = "release"
  /\ \E j, k \in 1..Len(policeLog) :
       /\ policeLog[j].result = "arrested"
       /\ policeLog[k].target = policeLog[j].target
       /\ policeLog[k].inRange /\ policeLog[k].targetDetained
       /\ policeLog[k].result = "lost"

\* C9: a citizen detained before a tick whose release tick is still ahead
\* keeps its position in that tick's loop body, and no crime recorded in a
\* tick has a detained perpetrator.
C9_DetainedStaysAndClean ==
  /\ lastStep.i # 0 /\ lastStep.i <= Len(lastStep.pre) =>
       LET c == lastStep.pre[lastStep.i]
       IN c.isDetained /\ lastStep.tick < c.detentionEndTime =>
            lastStep.post[lastStep.i].position = c.position
  /\ pc = "police" =>
       \A k \in 1..Len(crimes) :
         crimes[k].tick = tickCount => ~citizens[crimes[k].perpetrator].isDetained

\* The passes of tick() in their order, and the pass each event type is
\* pushed in (0: initialize()).
PassOrder ==
  <<"citizens", "formation", "processing", "routine", "crime", "police",
    "release", "respawn">>

PassOf(type) ==
  IF type \in {"building", "birth"} THEN 1
  ELSE IF type = "government" THEN 2
  ELSE IF type \in {"tax", "rebellion"} THEN 3
  ELSE IF type = "crime" THEN 5
  ELSE IF type = "arrest" THEN 6
  ELSE 0

PassStep ==
  pc' # pc =>
    \/ pc = "idle" /\ pc' = "citizens" /\ tickCount' = tickCount + 1
    \/ /\ tickCount' = tickCount
       /\ \/ \E k \in 1..(Len(PassOrder) - 1) : pc = PassOrder[k] /\ pc' = PassOrder[k + 1]
          \/ pc = PassOrder[Len(PassOrder)] /\ pc' = "idle"

EventsInPassOrder ==
  \A j, k \in 1..Len(events) :
    j < k => \/ events[j].tick < events[k].tick
             \/ /\ events[j].tick = events[k].tick
                /\ PassOf(events[j].type) <= PassOf(events[k].type)

\* C10: within a tick the passes run once each, in the order citizen loop,
\* government formation, government processing, routine, crime, police,
\* release, respawn, so that a tick that ends has run each of them once; the
\* event queue lists the events in pass order.
C10_PassesInOrder ==
  /\ [][PassStep]_vars
  /\ [](EventsInPassOrder)

\* A tick has ended whose queue holds a crime event followed by an arrest
\* event of that tick.
C10_Witness ==
  /\ pc = "idle"
  /\ \E j, k \in 1..Len(events) :
       /\ j < k /\ events[j].tick = tickCount /\ events[k].tick = tickCount
       /\ events[j].type = "crime" /\ events[k].type = "arrest"

\* The blocks of the body of the citizen loop that can throw.
BodyBlocks == {"update", "collect", "building", "breeding"}

\* The step is a body of the citizen loop (not one skipped for want of a safe
\* position).
BodyRan == pc = "citizens" /\ lastStep'.i = ci /\ lastStep'.tick = tickCount

\* A citizen whose body has thrown in the current tick stays as it is in
\* every later step of the tick, and the body that threw did nothing after
\* the throw.
C11_SkippedStep ==
  /\ \A k \in 1..Len(citizens) :
       (\E b \in BodyBlocks : <<b, k>> \in caught) /\ caught' # {}
         => citizens'[k] = citizens[k]
  /\ BodyRan /\ lastStep'.threw # {}
       => /\ ~lastStep'.placed /\ ~lastStep'.born
          /\ lastStep'.post[ci] = lastStep'.upd[ci]

\* C11 as stated: an error while updating, moving, building or breeding one
\* citizen is caught and that citizen is skipped for the remainder of the
\* tick: nothing more happens to it until the tick has ended.
C11_ThrowerSkippedForTick == [][C11_SkippedStep]_vars

\* What a body of the citizen loop does around a throw: a throwing update
\* ends the body, a throwing collection, building or breeding block loses only
\* its own effects, and the blocks that did not throw run as usual; the loop
\* then goes on with the next citizen, or with the government formation.
C11_Step ==
  /\ pc = "citizens" /\ isValidPosition(grid, citizens[ci].position) => BodyRan
  /\ pc = "citizens" => /\ ci' = ci + 1
                        /\ pc' = IF ci + 1 > Len(citizens') THEN "formation" ELSE "citizens"
  /\ BodyRan =>
       LET s == lastStep'
       IN /\ caught' = caught \cup {<<b, ci>> : b \in s.threw}
          /\ "update" \in s.threw <=> <<"update", ci>> \in faults
          /\ "update" \in s.threw =>
               /\ s.threw = {"update"}
               /\ s.post = s.upd
               /\ [s.upd[ci] EXCEPT !.position = s.pre[ci].position] = s.pre[ci]
               /\ UNCHANGED <<resources, landmarks, events, totalBuildings, totalBirths>>
          /\ "update" \notin s.threw =>
               /\ \A b \in BodyBlocks \ {"update"} : b \in s.threw <=> <<b, ci>> \in faults
               /\ "collect" \in s.threw =>
                    resources' = resources /\ s.mid[ci].inventory = s.upd[ci].inventory
               /\ "building" \in s.threw =>
                    /\ ~s.placed /\ landmarks' = landmarks
                    /\ s.mid[ci].buildingTarget = s.upd[ci].buildingTarget
               /\ "building" \notin s.threw =>
                    (s.placed <=> /\ buildingLooksCompleted(s.upd[ci])
                                  /\ canBuildAt(grid, landmarks, s.upd[ci].position))
               /\ "breeding" \in s.threw => ~s.born /\ s.post = s.mid
               /\ "breeding" \notin s.threw =>
                    (s.born <=> /\ mayBreed(s.mid, ci)
                                /\ createOffspring(grid, s.mid, landmarks', s.mid[ci]) # Null)

\* C11 (amended): an error thrown by one citizen's update is caught and ends
\* that citizen's loop body; an error thrown by its collection, building or
\* breeding block is caught and skips only that block, the later blocks of the
\* same body still run.  In both cases the loop goes on with every other
\* citizen and the tick with every later pass.
C11_ThrowSkipsBlock == [][C11_Step /\ PassStep]_vars

\* A tick has ended in which citizen 6's update and citizen 13's collection
\* threw, citizen 13's town hall was placed all the same, and the formation
\* pass formed a government.
C11_Witness ==
  /\ pc = "idle"
  /\ {<<"update", 6>>, <<"collect", 13>>} \subseteq caught
  /\ \E j, k \in 1..Len(events) :
       /\ events[j].type = "building" /\ events[j].tick = tickCount
       /\ events[k].type = "government" /\ events[k].tick = tickCount

\* The passes of tick() the claim C12 is about.
FalliblePasses == {"formation", "processing", "routine", "crime", "police"}

\* A pass that throws is caught: its error is logged and tick() goes on, in the
\* same tick, with the pass that follows; the release sweep frees whoever is due.
C12_Step ==
  /\ \A p \in FalliblePasses :
       pc = p /\ <<p>> \in faults
         => /\ caught' = caught \cup {<<p>>}
            /\ tickCount' = tickCount
            /\ \E k \in 1..(Len(PassOrder) - 1) : p = PassOrder[k] /\ pc' = PassOrder[k + 1]
  /\ pc = "release" =>
       \A k \in 1..Len(citizens) :
          citizens[k].isDetained /\ tickCount >= citizens[k].detentionEndTime
            => ~citizens'[k].isDetained

\* C12: a failure inside the government-formation, government-processing,
\* routine, crime or police pass is caught for that pass only: the remaining
\* passes of the tick, detention release and resource respawn included, run in
\* their order, and tick() returns normally (the fatal error of the validation
\* is not raised).
C12_PassFailureIsolated ==
  /\ [][C12_Step /\ PassStep]_vars
  /\ [](stateIsIntact(faults) => <<"tick">> \notin caught)

\* A tick has ended in which the government processing, the routine and the
\* crime pass threw, the police pass arrested all the same, and the release
\* sweep freed citizen 6.
C12_Witness ==
  /\ pc = "idle"
  /\ {<<"processing">>, <<"routine">>, <<"crime">>} \subseteq caught
  /\ \E k \in 1..Len(events) : events[k].type = "arrest" /\ events[k].tick = tickCount
  /\ ~citizens[6].isDetained /\ citizens[6].detentionEndTime = tickCount

\* One of the structures tick() validates is missing or of the wrong kind.
Corrupted ==
  \E d \in {"grid", "citizens", "resources", "landmarks"} : <<"corrupt", d>> \in faults

\* A call of tick() on a world that fails the validation: the error is logged
\* and thrown, and no pass has touched the world.
C13_Step ==
  pc = "idle" /\ tickCount' # tickCount /\ Corrupted
    => /\ pc' = "idle"
       /\ caught' = {<<"tick">>}
       /\ UNCHANGED <<grid, citizens, resources, landmarks, governments, crimes,
                      crimeIdCounter, officers, events, totalBuildings, totalBirths,
                      lastStep, policeLog>>

\* C13: when the grid is missing or invalid, or the citizen, resource or
\* landmark collection is not a list, tick() raises the fatal error and none
\* of the per-citizen or subsystem passes runs: tick() is never inside a pass,
\* no loop body and no police sweep has run.
C13_CorruptionAbortsTick ==
  /\ [][C13_Step]_vars
  /\ [](Corrupted => pc = "idle" /\ lastStep = NoStep /\ policeLog = <<>>)

\* tick() was called on a world whose resource collection is not a list and
\* has raised the fatal error.
C13_Witness ==
  /\ <<"corrupt", "resources">> \in faults
  /\ <<"tick">> \in caught
  /\ tickCount = horizon

\* floor(len(inventory) * taxRate) for the rate 15/100 of government gov.
TaxDue(c, gov) == (Len(c.inventory) * gov.taxRate) \div 100

\* The number of tokens of type T in a sequence of tokens.
CountOf(T, tokens) == Cardinality({k \in 1..Len(tokens) : tokens[k] = T})

\* The amount of T in a treasury.
AmountOf(T, treasury) ==
  LET F[k \in 0..Len(treasury)] ==
        IF k = 0 THEN 0
        ELSE F[k - 1] + IF treasury[k].resource = T THEN treasury[k].amount ELSE 0
  IN F[Len(treasury)]

\* The sum of the tokens of type T among the first TaxDue tokens of the members.
TaxOf(T, members, cs, gov) ==
  LET F[k \in 0..Len(members)] ==
        IF k = 0 THEN 0
        ELSE F[k - 1] + CountOf(T, SubSeq(cs[members[k]].inventory, 1,
                                          TaxDue(cs[members[k]], gov)))
  IN F[Len(members)]

\* The government processing of a tax tick, government by government.
C14_Step ==
  pc = "processing" /\ tickCount % 100 = 0 /\ <<"processing">> \notin faults =>
    \A n \in 1..Len(governments) :
      LET gov == governments[n]
      IN /\ \A k \in 1..Len(gov.citizens) :
              LET c == citizens[gov.citizens[k]]
                  due == TaxDue(c, gov)
              IN /\ citizens'[gov.citizens[k]].inventory
                      = SubSeq(c.inventory, due + 1, Len(c.inventory))
                 /\ citizens'[gov.citizens[k]].taxesPaid = c.taxesPaid + due
         /\ \A T \in {"R", "W", "A", "L"} :
              AmountOf(T, governments'[n].treasury)
                = AmountOf(T, gov.treasury) + TaxOf(T, gov.citizens, citizens, gov)

\* C14: at a tax tick each member of a government loses exactly
\* floor(len(inventory) * taxRate) tokens, the oldest ones, and the treasury
\* of its government gains exactly those tokens, counted per resource type;
\* with 10 tokens and the rate 0.15 exactly one token moves.
C14_TaxFromTheFront == [][C14_Step]_vars

\* The taxes of tick 33200 are in: citizen 5, who held W and nine R, has paid
\* the W, and the treasury of its government holds one W.
C14_Witness ==
  /\ pc = "routine" /\ tickCount = 33200
  /\ citizens[5].inventory = [k \in 1..9 |-> "R"]
  /\ citizens[5].taxesPaid = 5
  /\ AmountOf("W", governments[1].treasury) = 1
  /\ AmountOf("R", governments[1].treasury) = 4

\* The town halls no government claims, in list order, and the unaffiliated
\* citizens within 5 of town hall l, in list order.
UnclaimedTownHalls ==
  SelectSeq([l \in 1..Len(landmarks) |-> l],
            LAMBDA l : landmarks[l].type = "town_hall" /\ ClaimedBy(l) = {})

NearHall(l) == unaffiliatedNear(citizens, landmarks[l].position, 5)

\* The governments that claim landmark l after the step.
ClaimedByNext(l) ==
  {n \in 1..Len(governments') :
     \E b \in 1..Len(governments'[n].governmentBuildings) :
        landmarks'[governments'[n].governmentBuildings[b]].position = landmarks'[l].position}

\* The formation sweep, for the town halls that were unclaimed before it: none
\* with fewer than 5 citizens near gets a government; the first with 5 or more
\* gets exactly one, led by the first, with the next two as officials.
FormationStep(Joined(_)) ==
  pc = "formation" /\ <<"formation">> \notin faults =>
    /\ \A k \in 1..Len(UnclaimedTownHalls) :
         Len(NearHall(UnclaimedTownHalls[k])) < 5 => ClaimedByNext(UnclaimedTownHalls[k]) = {}
    /\ UnclaimedTownHalls # <<>> /\ Len(NearHall(UnclaimedTownHalls[1])) >= 5 =>
         LET l == UnclaimedTownHalls[1]
             near == NearHall(l)
             in == Joined(near)
         IN /\ Cardinality(ClaimedByNext(l)) = 1
            /\ \A n \in ClaimedByNext(l) :
                 /\ n > Len(governments)
                 /\ governments'[n].leader = near[1]
                 /\ Members(governments'[n].officials) = {near[1], near[2], near[3]}
                 /\ Members(governments'[n].citizens) = {near[j] : j \in 1..in}
                 /\ \A j \in 1..in :
                      /\ citizens'[near[j]].governmentId = n
                      /\ citizens'[near[j]].governmentRole
                           = IF j = 1 THEN "leader" ELSE IF j <= 3 THEN "official"
                             ELSE "citizen"
                 /\ \A j \in (in + 1)..Len(near) : citizens'[near[j]].governmentId # n

AllOf(near) == Len(near)

FirstFiveOf(near) == 5

NobodyCanRebel ==
  /\ \A k \in 1..Len(citizens) :
       citizens[k].satisfaction >= Pts(70) /\ citizens[k].governmentRole # "rebel"
  /\ \A k \in 1..Len(events) : events[k].type # "rebellion"

\* The detention time the claim assigns to a social credit.
TieredDetention(credit) ==
  IF credit < Pts(100) THEN 200 ELSE IF credit < Pts(200) THEN 150 ELSE 100

\* The police sweep detains whom it arrests until the tick of the arrest plus
\* the time for the credit it had before the arrest; a citizen stops being
\* detained only in the release sweep, and only once its release tick is
\* reached; the release sweep releases everybody whose release tick is reached.
C17_Step ==
  /\ \A k \in 1..Len(policeLog') :
       pc = "police" /\ policeLog'[k].result = "arrested" =>
         LET criminal == citizens'[policeLog'[k].target]
         IN /\ criminal.isDetained
            /\ criminal.detentionEndTime = tickCount + TieredDetention(policeLog'[k].credit)
  /\ \A k \in 1..Len(citizens) :
       /\ citizens[k].isDetained /\ ~citizens'[k].isDetained
            => pc = "release" /\ tickCount >= citizens[k].detentionEndTime
       /\ citizens[k].isDetained /\ pc = "release" /\ tickCount >= citizens[k].detentionEndTime
            => ~citizens'[k].isDetained
       /\ citizens[k].isDetained /\ citizens'[k].isDetained
            => citizens'[k].detentionEndTime = citizens[k].detentionEndTime

C18_Step ==
  pc = "police" =>
    \A k \in 1..Len(policeLog') :
      policeLog'[k].result = "arrested" =>
        \A m \in 1..Len(crimes') :
          crimes'[m].perpetrator = policeLog'[k].target => crimes'[m].resolved

\* C18: when a citizen is arrested, every unresolved crime recorded with it as
\* perpetrator, those of the same tick included, is resolved in that tick;
\* from the police sweep to the end of the tick, and between ticks, no
\* detained citizen has an unresolved crime.
C18_ArrestResolvesCrimes ==
  /\ [][C18_Step]_vars
  /\ [](pc \in {"release", "respawn", "idle"} =>
          \A m \in 1..Len(crimes) :
             citizens[crimes[m].perpetrator].isDetained => crimes[m].resolved)

\* A tick has ended in which citizen 5 stole and was arrested: it is detained
\* and its theft of this tick is resolved.
C18_Witness ==
  /\ pc = "idle" /\ tickCount = 2110
  /\ Len(citizens) >= 5 /\ officers # <<>>
  /\ citizens[5].isDetained
  /\ \E k \in 1..Len(policeLog) : policeLog[k].result = "arrested" /\ policeLog[k].target = 5
  /\ \E m \in 1..Len(crimes) :
       crimes[m].perpetrator = 5 /\ crimes[m].tick = tickCount /\ crimes[m].resolved

\* ------------------------------------------------------------------ C19

\* The uncollected resources on cell p, in list order.
UncollectedAt(rs, p) == SelectIdx(rs, LAMBDA r : ~r.collected /\ r.position = p)

\* A body of the citizen loop for a citizen that stood, when its turn came, on
\* the cell of an uncollected resource with fewer than 10 tokens: afterwards
\* the resource is collected and its type is the citizen's last token.
C19_CollectedWhereItStood ==
  BodyRan =>
    LET c == citizens[ci]
        at == UncollectedAt(resources, c.position)
    IN Len(c.inventory) < 10 /\ at # <<>> =>
         /\ resources'[at[1]].collected
         /\ citizens'[ci].inventory # <<>>
         /\ citizens'[ci].inventory[Len(citizens'[ci].inventory)] = resources[at[1]].type

C19_Step ==
  BodyRan /\ lastStep'.threw \cap {"update", "collect"} = {} =>
    LET c == lastStep'.upd[ci]
        at == UncollectedAt(resources, c.position)
        n == Min(Len(at), 10 - Len(c.inventory))
    IN /\ citizens'[ci].inventory = c.inventory \o [k \in 1..n |-> resources[at[k]].type]
       /\ resources' = [r \in 1..Len(resources) |->
                          IF \E k \in 1..n : at[k] = r
                          THEN [resources[r] EXCEPT !.collected = TRUE]
                          ELSE resources[r]]

Deciding == decayNeeds(citizens[ci], isOnRoad(citizens[ci], landmarks))

\* The loop body runs the decision: the update does not throw and the citizen
\* is not building.
Decides == BodyRan /\ "update" \notin lastStep'.threw /\ ~citizens[ci].isBuilding

\* The states the first match of the priority order allows, the breeding and
\* building gates being draws that can only open when their conditions hold;
\* fromBuildGate are the states the open building gate leaves.
FirstMatch(fromBuildGate) ==
  LET d == Deciding
  IN IF d.nenergy < Pts(20) THEN {"seeking_shelter"}
     ELSE IF d.hunger < Pts(30) THEN {"seeking_resource"}
     ELSE (IF TRUE \in shouldBreed(d, tickCount, citizens) THEN {"seeking_mate"} ELSE {})
          \cup (IF TRUE \in shouldBuild(d, landmarks) THEN fromBuildGate ELSE {})
          \cup {IF d.social < Pts(30) THEN "socializing" ELSE "wandering"}

\* C20 as stated: the decision of a citizen that is not building selects one
\* state by first match: needs.energy < 20 seeking_shelter, else needs.hunger
\* < 30 seeking_resource, else the breeding gate seeking_mate, else the
\* building gate seeking_resource, else needs.social < 30 socializing, else
\* wandering.
C20_FirstMatchSelectsState ==
  [][Decides => lastStep'.upd[ci].state \in FirstMatch({"seeking_resource"})]_vars

\* The decision of a loop body: as stated, but the open building gate leaves
\* the state building when the citizen holds every material of its plan, and
\* then the citizen has started the building.
C20_Step ==
  Decides =>
    LET c == lastStep'.upd[ci]
    IN /\ c.state \in FirstMatch({"seeking_resource", "building"})
       /\ c.state = "building" =>
            /\ c.isBuilding /\ c.buildingTarget # Null /\ c.target = Null
            /\ hasResources(Deciding.inventory,
                            BUILDING_RECIPES[c.buildingTarget[1]].resources)

\* C20, amended: the decision of a citizen that is not building selects one
\* state by first match in the stated order, needs.energy before needs.hunger
\* (needs.energy = 15 with needs.hunger = 10 gives seeking_shelter), except
\* that behind the building gate a citizen that already holds all materials
\* of its plan starts building at once and is left in state building.
C20_FirstMatchOrStartsBuilding == [][C20_Step]_vars

\* Citizen 7 of the shelter world decides with needs.energy = 15 and
\* needs.hunger = 10 and seeks shelter.
C20_Witness ==
  /\ lastStep.i = 7 /\ lastStep.tick = 2109 /\ lastStep.threw = {}
  /\ lastStep.pre[7].nenergy = Pts(15) + 10 /\ lastStep.pre[7].hunger = Pts(10) + 20
  /\ lastStep.upd[7].nenergy = Pts(15) /\ lastStep.upd[7].hunger = Pts(10)
  /\ lastStep.upd[7].state = "seeking_shelter"

\* ------------------------------------------------------------------ C21

\* A step removes no citizen, and the population grows exactly by the births
\* it adds to totalBirths (the births of getStats()).
C21_Step ==
  /\ Len(citizens') >= Len(citizens)
  /\ Len(citizens') - totalBirths' = Len(citizens) - totalBirths
  /\ totalBirths' >= totalBirths

\* C21: the population never decreases, and population minus total births
\* is the same in every state of a run: after every tick the population is
\* the number of citizens initialize() created (totalBirths is 0 then) plus
\* the births getStats() reports.
C21_PopulationIsInitialPlusBirths == [][C21_Step]_vars

\* The elders' world after the tick of its first birth: four citizens from
\* initialize(), one birth, five citizens (the newborn's own loop body has
\* run in the tick of its birth).
C21_Witness ==
  /\ pc = "idle" /\ tickCount = 2100
  /\ totalBirths = 1 /\ Len(citizens) = 5 /\ citizens[5].age = 1

\* ------------------------------------------------------------------ C22

\* The crimes a sweep at tick t removes: resolved and at least 500 ticks old.
Expired(c, t) == c.resolved /\ t - c.tick >= 500

\* A crime sweep that does not throw keeps, in order, exactly the crimes that
\* are not both resolved and 500 ticks old, and appends the crimes of its own
\* check; no other step of tick() takes a crime off the list.
C22_Step ==
  IF pc = "crime" /\ <<"crime">> \notin faults
  THEN LET kept == SelectSeq(crimes, LAMBDA c : ~Expired(c, tickCount))
       IN /\ Len(crimes') >= Len(kept)
          /\ SubSeq(crimes', 1, Len(kept)) = kept
          /\ \A k \in (Len(kept) + 1)..Len(crimes') :
               crimes'[k].tick = tickCount /\ ~crimes'[k].resolved
  ELSE /\ Len(crimes') = Len(crimes)
       /\ \A k \in 1..Len(crimes) : crimes'[k].id = crimes[k].id

\* C22: a crime sweep removes a crime from the crime list if and only if the
\* crime is resolved and at least 500 ticks old at that sweep; an unresolved
\* crime is never removed, however old.
C22_SweepRemovesResolvedOld == [][C22_Step]_vars

\* After the sweep of tick 2111: the theft of tick 1500, unresolved through
\* the sweeps of 2109 and 2110 and resolved by the arrest of tick 2110, is
\* gone, and so is the theft of tick 1610, 500 ticks old at the sweep of 2110;
\* the thefts resolved with them but younger are kept.
C22_Witness ==
  /\ pc = "police" /\ tickCount = 2111
  /\ \A k \in 1..Len(crimes) : crimes[k].id \notin {0, 1}
  /\ \E k \in 1..Len(crimes) : crimes[k].id = 2 /\ crimes[k].resolved
  /\ \E k \in 1..Len(crimes) : crimes[k].id = 8 /\ crimes[k].resolved

\* ------------------------------------------------------------------ C23

\* The crimes a crime sweep has appended to the list.
NewCrimes == {k \in 1..Len(crimes') : crimes'[k].tick = tickCount /\ pc = "crime"}

\* Citizen c stands on the cell of a government building.
OnGovernmentBuilding(c) ==
  \E k \in 1..Len(landmarks) :
    isGovernmentBuilding(landmarks[k].type) /\ landmarks[k].position = c.position

\* A trespassing crime is recorded at a crime check for a perpetrator that
\* is free, has a credit below 300, is independent and stands on a government
\* building; Charged(before, after) relates its credit around the sweep.
TrespassStep(Charged(_, _)) ==
  \A k \in NewCrimes :
    crimes'[k].type = "TRESPASSING" =>
      LET c == citizens[crimes'[k].perpetrator]
      IN /\ tickCount % crimeCheckInterval = 0
         /\ ~c.isDetained /\ c.state # "fleeing"
         /\ OnGovernmentBuilding(c)
         /\ c.governmentRole = "independent"
         /\ c.socialCredit < Pts(300)
         /\ crimes'[k].location = c.position
         /\ tickCount % 100 # 0 =>
              Charged(c.socialCredit, citizens'[crimes'[k].perpetrator].socialCredit)

FullPenalty(before, after) == after = before - Pts(20)

PenaltyDownToZero(before, after) == after = Max(0, before - Pts(20))

C24_WorldAndLockUnchanged ==
  /\ session'.lock = session.lock
  /\ session'.lastGoodState = session.lastGoodState
  /\ UNCHANGED <<grid, tickCount, citizens, resources, landmarks, governments,
                 crimes, crimeIdCounter, officers, events, totalBuildings,
                 totalBirths, pc, ci>>

\* In a session the lock is held exactly while a tick request is inside
\* world.tick(); tick() is entered only by a request that found the lock free;
\* and a request that finds it set answers 429 and changes nothing.
C24_Step ==
  session # Null =>
    /\ session.lock <=> pc # "idle"
    /\ tickCount' # tickCount => ~session.lock
    /\ pc = "idle" /\ pc' # "idle" => session'.lock
    /\ pc = "idle" /\ session.lock
         => session'.reply = Reply(429, "TICK_IN_PROGRESS", Null) /\ C24_WorldAndLockUnchanged

C25_Step ==
  session # Null /\ pc = "idle" /\ tickCount' # tickCount /\ Corrupted
    => /\ session.lastGoodState # Null
            => session'.reply = Reply(200, "RECOVERED_FROM_ERROR", session.lastGoodState)
       /\ session.lastGoodState = Null
            => session'.reply = Reply(500, "TICK_FAILED", Null)
       /\ session'.lastGoodState = session.lastGoodState
       /\ ~session'.lock

\* C25: when world.tick() throws inside a tick request, the request answers
\* 200 with the session's cached last good state flagged RECOVERED_FROM_ERROR
\* if such a state is cached and 500 TICK_FAILED otherwise, and in neither
\* case is the cached last good state replaced.
C25_ThrowingTickAnswersFromCache == [][C25_Step]_vars

\* C25 witness: the session of the police world, whose resources are no
\* array, answered the tick request of tick 2110 with the state cached at
\* tick 2109.
C25_Witness ==
  /\ session # Null
  /\ Corrupted
  /\ caught = {<<"tick">>}
  /\ tickCount = PoliceWorld.tickCount + 1
  /\ session.reply.status = 200
  /\ session.reply.code = "RECOVERED_FROM_ERROR"
  /\ session.reply.state = session.lastGoodState
  /\ session.lastGoodState[1].ticks = PoliceWorld.tickCount

\* ------------------------------------------------------------------ C26
\* A citizen the routine sweep has to leave to its own decisions.
InEmergency(c) == ~c.isDetained /\ (c.hunger < Pts(20) \/ c.nenergy < Pts(20))

\* The routine sweep changes nothing of a citizen in an emergency.
C26_Step ==
  pc = "routine" =>
    \A i \in 1..Len(citizens) :
      InEmergency(citizens[i]) => citizens'[i] = citizens[i]

\* C26: the routine sweep leaves untouched (state, target, needs and routine
\* all unchanged) every non-detained citizen whose needs.hunger < 20 or
\* needs.energy < 20 at the time of the sweep, in every phase of the day.
C26_EmergencySkipsRoutine == [][C26_Step]_vars

\* C26 witness: after the routine sweep of the morning tick 3301 the hungry
\* citizen 1 and the tired citizen 2 still have the routine of the night,
\* while citizen 3 is waking up.
C26_Witness ==
  /\ pc = PassAfter["routine"]
  /\ tickCount = 3301
  /\ Len(citizens) = 3
  /\ citizens[1].hunger < Pts(20) /\ citizens[1].nenergy >= Pts(20)
  /\ citizens[2].hunger >= Pts(20) /\ citizens[2].nenergy < Pts(20)
  /\ citizens[1].routine = "sleeping"
  /\ citizens[2].routine = "sleeping"
  /\ citizens[3].routine = "waking_up"

\* ------------------------------------------------------------------ C27
\* The clock the spec describes for the tick count t.
ClockHour(t) == (t % (24 * ticksPerHour)) \div ticksPerHour

\* C27: for every tick count t the clock hour is
\* floor((t mod (24*ticksPerHour)) / ticksPerHour) and lies in 0..23, the
\* phase is morning iff 6 <= hour < 9, work iff 9 <= hour < 17, evening iff
\* 17 <= hour < 20 and night otherwise, and the time of day at t equals the
\* time of day at t + 24*ticksPerHour.
C27_ClockAndPhases ==
  currentTime # Null =>
    LET now == currentTime[1]
        hour == ClockHour(tickCount)
    IN /\ now.hour = hour
       /\ hour \in 0..23
       /\ now.period = "morning" <=> 6 <= hour /\ hour < 9
       /\ now.period = "work" <=> 9 <= hour /\ hour < 17
       /\ now.period = "evening" <=> 17 <= hour /\ hour < 20
       /\ now.period = "night" <=> hour < 6 \/ hour >= 20
       /\ getTimeOfDay(tickCount + 24 * ticksPerHour) = now

\* C27 witness: the routine pass of tick 2640, the first tick of hour 20 of
\* the second day, ran at night.
C27_Witness ==
  /\ currentTime # Null
  /\ tickCount = 2640
  /\ currentTime[1] = [hour |-> 20, minute |-> 0, period |-> "night"]

MeetsBreedingRequirements(c, tick) ==
  /\ c.age >= minAge
  /\ c.energy >= Pts(minEnergy)
  /\ tick - c.lastBreedTime >= breedingCooldown

\* C29: at the moment of every birth both parents, the initiating citizen and
\* its partner, satisfy the breeding requirements: age >= 100, energy >= 60
\* and at least 200 ticks since their own last birth.  The parents are taken
\* as the breeding block of the loop body found them.
C29_ParentsMeetRequirements ==
  lastStep.born =>
    LET i == lastStep.i
        j == lastStep.mid[i].breedingPartner
    IN /\ MeetsBreedingRequirements(lastStep.mid[i], lastStep.tick)
       /\ MeetsBreedingRequirements(lastStep.mid[j], lastStep.tick)

\* ------------------------------------------------------------------ C30
\* C30: if initialize() creates at most maxPopulation citizens (the
\* population less the births), the population never exceeds maxPopulation,
\* also when several pairs could breed one after another in the same citizen
\* loop.
C30_PopulationWithinCap ==
  Len(citizens) - totalBirths <= maxPopulation => Len(citizens) <= maxPopulation

\* C30 witness: in the crowded world the birth of the pair 1, 2 filled the
\* population to the cap, and the pair 3, 4, still partners side by side and
\* fit, ended the citizen loop without an offspring.
C30_Witness ==
  /\ pc = "formation"
  /\ tickCount = 2100
  /\ totalBirths = 1
  /\ Len(citizens) = maxPopulation
  /\ citizens[3].breedingPartner = 4 /\ citizens[4].breedingPartner = 3
  /\ isNearby(citizens[3], citizens[4])
  /\ canBreedWith(citizens[3], citizens[4], tickCount)

\* ------------------------------------------------------------------ C31
\* The cell p is inside the grid and carries no boundary landmark.
OnOpenCell(p) ==
  /\ isValidPosition(grid, p)
  /\ \A k \in 1..Len(landmarks) :
       landmarks[k].position = p => landmarks[k].type # "boundary"

\* C31: after every tick every citizen stands on a cell that is inside the
\* grid and is not a boundary (non-walkable) landmark, also when its movement
\* target lies out of bounds and for newly placed offspring.  Checked in
\* every state, within ticks as well.
C31_CitizensOnOpenCells ==
  \A i \in 1..Len(citizens) : OnOpenCell(citizens[i].position)

\* C31 witness: tick 2110 of the police world is over; the fleeing citizen 5,
\* whose target lies outside the grid, stands at (1,1) before the boundary.
C31_Witness ==
  /\ pc = "idle" /\ tickCount = 2110
  /\ Len(citizens) >= 6 /\ officers # <<>>
  /\ citizens[5].target # Null
  /\ ~isValidPosition(grid, citizens[5].target[1])
  /\ citizens[5].position = Pos(1, 1)

\* ------------------------------------------------------------------ C32
\* The step is the loop body of citizen i, and its update() does not throw.
UpdatesCitizen(i) == pc = "citizens" /\ ci = i /\ <<"update", i>> \notin faults

\* One step seen from citizen i: while isBuilding is set the citizen does not
\* move, each of its updates counts one tick of the recipe's buildTime and the
\* last one clears isBuilding, and nothing else touches flag or count; the
\* flag is set only by the citizen's own update, with count 0, on the spot.
BuildsOnTheSpot(i) ==
  LET c == citizens[i]
      d == citizens'[i]
  IN /\ c.isBuilding =>
          /\ c.buildingTarget # Null
          /\ c.buildingProgress < BUILDING_RECIPES[c.buildingTarget[1]].buildTime
          /\ d.position = c.position
          /\ IF UpdatesCitizen(i)
             THEN IF c.buildingProgress + 1 >= BUILDING_RECIPES[c.buildingTarget[1]].buildTime
                  THEN ~d.isBuilding
                  ELSE d.isBuilding /\ d.buildingProgress = c.buildingProgress + 1
             ELSE d.isBuilding /\ d.buildingProgress = c.buildingProgress
     /\ ~c.isBuilding /\ d.isBuilding =>
          /\ UpdatesCitizen(i)
          /\ d.buildingProgress = 0
          /\ d.position = c.position

C32_Step == \A i \in 1..Len(citizens) : BuildsOnTheSpot(i)

\* C32 as stated, the building state read as the citizen's state field: a
\* citizen that enters the state building stays in it at an unchanged position
\* for exactly the recipe's buildTime ticks and then leaves it.
C32_BuildingStateForBuildTime ==
  [][/\ C32_Step
     /\ \A i \in 1..Len(citizens) :
          citizens'[i].isBuilding <=> citizens'[i].state = "building"]_vars

\* C32 amended: a citizen whose startBuilding() succeeded has isBuilding set,
\* at an unchanged position, through exactly buildTime of its updates (one per
\* tick) and then has it cleared, whatever its needs become; its state field
\* is building when the flag is set, but the passes after the citizen loop may
\* overwrite it while the flag stays.
C32_BuildingFlagForBuildTime == [][C32_Step]_vars

\* C32 witness: farmer 3 of the elders' world started a wall in tick 2100 and
\* has counted one tick of it in tick 2101, on its cell; the routine pass made
\* its state working.
C32_Witness ==
  /\ pc = "idle" /\ tickCount = 2101
  /\ Len(citizens) >= 4 /\ grid = TownGrid
  /\ citizens[3].isBuilding /\ citizens[3].buildingProgress = 1
  /\ citizens[3].position = Pos(3, 3)
  /\ citizens[3].state = "working"

\* ------------------------------------------------------------------ C33
\* No two landmarks of the list lie on the same cell.
OnePerCell(lms) ==
  \A j, k \in 1..Len(lms) : j # k => lms[j].position # lms[k].position

\* A step keeps every landmark where it is in the list and only appends.
C33_Step ==
  /\ Len(landmarks') >= Len(landmarks)
  /\ SubSeq(landmarks', 1, Len(landmarks)) = landmarks
  /\ OnePerCell(landmarks) /\ OnePerCell(landmarks')

\* C33: landmarks are never removed, and no two landmarks ever occupy the same
\* cell: a building is placed only on a cell that holds no landmark, boundary
\* cells and cells built on earlier in the same tick included.
C33_LandmarksKeptOnePerCell == [][C33_Step]_vars

\* C33 witness: a loop body placed a building, and a later body of the same
\* citizen loop, of a citizen with a finished plan that stands on a cell with
\* a landmark, placed none.
C33_Witness ==
  /\ pc = "citizens" /\ lastStep.i > 1 /\ lastStep.tick = tickCount
  /\ ~lastStep.placed
  /\ lastStep.upd # <<>>
  /\ lastStep.upd[lastStep.i].buildingTarget # Null
  /\ ~lastStep.upd[lastStep.i].isBuilding
  /\ lastStep.upd[lastStep.i].buildingProgress = 0
  /\ lastStep.threw = {}
  /\ ~canBuildAt(grid, landmarks, lastStep.upd[lastStep.i].position)
  /\ landmarks[Len(landmarks)].type = "wall"
  /\ \E k \in 1..Len(events) : events[k] = Event("building", tickCount)

\* ------------------------------------------------------------------ C34
\* The resources a step flips from uncollected to collected, in list order.
FlippedToCollected ==
  SelectIdx(resources, LAMBDA r : ~r.collected)

\* The tokens of the resources of idx that the step collected, in list order.
TokensCollected ==
  LET idx == FlippedToCollected
      F[k \in 0..Len(idx)] ==
        IF k = 0 THEN <<>>
        ELSE IF resources'[idx[k]].collected
             THEN Append(F[k - 1], resources[idx[k]].type)
             ELSE F[k - 1]
  IN F[Len(idx)]

\* A loop body appends to the inventory its citizen's update left exactly the
\* tokens of the resources it collected, which lay on the citizen's cell, and up
\* to 10 tokens; nobody else's inventory changes; no other step collects.
C34_Step ==
  /\ Len(resources') = Len(resources)
  /\ IF pc = "citizens" /\ lastStep' # lastStep
     THEN LET i == lastStep'.i
              had == lastStep'.upd[i].inventory
          IN /\ citizens'[i].inventory = had \o TokensCollected
             /\ Len(citizens'[i].inventory) <= Max(10, Len(had))
             /\ \A j \in 1..Len(citizens) :
                  j # i => citizens'[j].inventory = citizens[j].inventory
             /\ \A k \in 1..Len(resources) :
                  ~resources[k].collected /\ resources'[k].collected
                    => resources[k].position = lastStep'.upd[i].position
     ELSE TokensCollected = <<>>

\* C34: resource tokens are conserved on collection: the resources that flip
\* from uncollected to collected are as many as the tokens appended to the
\* citizens' inventories, so of several citizens on one resource's cell only
\* one receives it, and a citizen with 10 items leaves the resource uncollected.
C34_TokensConservedOnCollection == [][C34_Step]_vars

\* C34 witness: in one citizen loop an earlier citizen collected the resource
\* of a cell, and the body of a later citizen standing on the same cell has
\* run and found nothing to collect.
C34_Witness ==
  /\ pc = "formation" /\ lastStep.tick = tickCount /\ lastStep.i > 1
  /\ lastStep.threw = {}
  /\ \E j \in 1..(lastStep.i - 1) : \E k \in 1..Len(resources) :
       /\ resources[k].collected
       /\ resources[k].position = citizens[j].position
       /\ citizens[j].position = citizens[lastStep.i].position
       /\ Len(citizens[j].inventory) > 0
       /\ citizens[j].inventory[Len(citizens[j].inventory)] = resources[k].type
       /\ lastStep.post[lastStep.i].inventory = lastStep.upd[lastStep.i].inventory
       /\ Len(lastStep.post[lastStep.i].inventory) < 10

ArrestsOf(log, t) ==
  {k \in 1..Len(log) : log[k].result = "arrested" /\ log[k].target = t}

\* A police sweep arrests a citizen at most once, and only one that was not
\* detained when the sweep began: it is detained afterwards, has paid the
\* arrest penalty once, and the sweep queued one arrest event per arrest.
C36_Step ==
  pc = "police" /\ <<"police">> \notin faults =>
    /\ \A t \in 1..Len(citizens) :
         /\ Cardinality(ArrestsOf(policeLog', t)) <= 1
         /\ ArrestsOf(policeLog', t) # {} =>
              /\ ~citizens[t].isDetained
              /\ citizens'[t].isDetained
              /\ citizens'[t].socialCredit >= citizens[t].socialCredit - Pts(arrestPenalty)
         /\ citizens[t].isDetained => citizens'[t] = citizens[t]
    /\ Len(events') - Len(events)
         = Cardinality({t \in 1..Len(citizens) : ArrestsOf(policeLog', t) # {}})

\* C36: a citizen is arrested at most once per police sweep and never while it
\* is already detained, even when several officers have the same citizen as
\* pursuit target and are all within arrestRange in that sweep.
C36_ArrestedOncePerSweep == [][C36_Step]_vars

\* C36 witness: in the sweep of tick 2110 both officers had citizen 5 as their
\* target within arrestRange; the log holds one arrest of citizen 5 and the
\* later officer's turn, which found it detained.
C36_Witness ==
  /\ pc = "release" /\ tickCount = 2110
  /\ Len(policeLog) = 2
  /\ policeLog[1].target = 5 /\ policeLog[2].target = 5
  /\ policeLog[1].inRange /\ policeLog[2].inRange
  /\ policeLog[1].result = "arrested"
  /\ policeLog[2].result = "lost" /\ policeLog[2].targetDetained
  /\ Cardinality(ArrestsOf(policeLog, 5)) = 1

\* ------------------------------------------------------------------ C37
\* C37: every tick request that acquires a session lock releases it before it
\* finishes, on the success, recovered-from-cache and TICK_FAILED paths alike:
\* between requests the lock of a session is free, and no tick request of the
\* session is ever answered TICK_IN_PROGRESS.
C37_LockReleasedOnEveryPath ==
  session # Null =>
    /\ pc = "idle" => ~session.lock
    /\ session.reply # Reply(429, "TICK_IN_PROGRESS", Null)
    /\ session.reply.code \in {"", "RECOVERED_FROM_ERROR", "TICK_FAILED"}

\* C37 witness: the second tick request of a session whose first request
\* ended in TICK_FAILED was let in, failed as well, and left the lock free.
C37_Witness ==
  /\ session # Null /\ pc = "idle"
  /\ Corrupted /\ caught = {<<"tick">>}
  /\ tickCount = StartWorld.tickCount + 2
  /\ session.reply = Reply(500, "TICK_FAILED", Null)
  /\ session.lastGoodState = Null
  /\ ~session.lock

EventsSent(reply) ==
  IF reply.state = Null THEN {}
  ELSE {reply.state[1].events[k] : k \in 1..Len(reply.state[1].events)}

\* A tick request of the session ends with this step.
RequestEnds ==
  /\ session # Null
  /\ \/ ~session.lock /\ tickCount' # tickCount /\ ~session'.lock
     \/ session.lock /\ ~session'.lock

\* A request that ends sends no event the response before it carried, and a
\* response that sends the queue leaves the queue empty.
C39_Step ==
  RequestEnds =>
    /\ EventsSent(session'.reply) \cap EventsSent(session.reply) = {}
    /\ session'.reply.code = "" => events' = <<>>

\* C39: each world event is included in the response of at most one tick
\* request: the events a response returned are cleared from the queue, and no
\* later response, one served from the cached last good state after a failed
\* tick included, contains them again.
C39_EventsSentOnce == [][C39_Step]_vars

\* ------------------------------------------------------------------ C40
\* C40: in the web client, for every interleaving of start, pause, reset and
\* speed-change actions with pending session-creation and tick requests, at
\* most one tick interval timer is active at any time, and once pause() or
\* reset() has completed no timer is active until the next start action.
C40_OneTimerNoneWhenStopped ==
  /\ Cardinality(client.timers) <= 1
  /\ client.stopped => client.timers = {}

====
